---- MODULE Spec2Model ----
(***************************************************************************)
(* A model of the mosh-wasm carrier stack: the SSP session state machine   *)
(* (crates/mosh-ssp), the Instruction codec (crates/mosh-proto), the       *)
(* AEAD session (crates/mosh-crypto), the fragment layer                   *)
(* (crates/mosh-transport), the stream channel (crates/mosh-stream) and    *)
(* the client facade (crates/mosh-wasm).                                   *)
(*                                                                         *)
(* Option<T> is a sequence of length 0 (None) or 1 (Some).  Byte strings   *)
(* are sequences of small naturals.  Every varint the model encodes is     *)
(* below 128, so it occupies one byte on the wire.                         *)
(***************************************************************************)
EXTENDS Integers, Sequences, FiniteSets, TLC

VARIABLES
    ssp,        \* the SspSession under study (MoshClient.ssp; the sender of a link)
    sent,       \* history: the diff of every first transmission of ssp, in order
    call,       \* history: the last public call, its arguments and its result
    pushed,     \* history: the byte strings the host handed over, one per call
    peer,       \* the SspSession at the other end of a link (the receiver)
    net,        \* lossy link: the encoded Instructions ssp has emitted
    back,       \* lossy link: the encoded Instructions peer has emitted
    fifo,       \* in-order link: the encoded Instructions not yet delivered
    delivered,  \* history: the diffs peer's recv_instruction returned, in order
    crypto,     \* MoshClient.crypto
    fragmenter, \* MoshClient.fragmenter
    assembly,   \* MoshClient.assembly
    stream,     \* MoshClient.stream
    last_remote_timestamp,  \* MoshClient.last_remote_timestamp
    msgs,       \* history: the byte strings handed to make_fragments, in order
    frags,      \* the Fragments make_fragments returned that are not yet inserted
    fed,        \* history: the set of Fragments inserted into assembly so far
    peer_crypto, \* the CryptoSession that holds the same key as crypto
    wire,       \* history: every datagram the client has handed to the host, in order
    taken,      \* history: the bytes take_pending_diff has returned, in order
    applied,    \* history: the bytes handed to apply_diff, in order
    readout     \* history: the bytes read_available has returned, in order

linkVars == <<peer, net, back, fifo, delivered>>
clientVars == <<crypto, fragmenter, assembly, stream, last_remote_timestamp>>
unitVars == <<msgs, frags, fed, peer_crypto, wire>>
streamVars == <<taken, applied, readout>>
vars == <<ssp, sent, call, pushed, linkVars, clientVars, unitVars, streamVars>>

---------------------------------------------------------------------------
(* Bounds of the model *)

\* bytes the host pushes over a run (so a session makes at most MaxPush
\* first transmissions)
MaxPush == 2
\* largest new_num / ack_num carried by an injected Instruction
MaxNum == 2
\* Instructions the in-order link holds at most
MaxFifo == 3
\* datagrams a MoshClient seals over a run
MaxSeq == 2
\* the last clock reading of SpecRetry, in steps of RetryUnit milliseconds
MaxClock == 8
\* bytes of a message handed to make_fragments under SpecFrag
MaxMsg == 3

(* Program constants *)
HEARTBEAT_INTERVAL_MS == 3000
RTO_MIN_MS == 50
RTO_MAX_MS == 1000
RTO_INITIAL_MS == 1000
MOSH_PROTOCOL_VERSION == 2

\* the clock readings (now_ms) handed to tick under Spec
Times == {0, 1100}
\* the clock readings (now_ms) handed to recv_instruction under Spec
RecvTimes == {1100}
\* the clock readings (now_ms) handed to tick and recv_instruction under SpecTimer
TimerTimes == {0, 100, 500, 1100, 4200}
\* the host writes the byte stream 1, 2, 3, ...: the k-th byte pushed is k
Stream(from, n) == [i \in 1..n |-> from + i]

None == <<>>
Some(x) == <<x>>
IsSome(o) == Len(o) = 1
UnwrapOr(o, d) == IF Len(o) = 1 THEN o[1] ELSE d

Max(a, b) == IF a >= b THEN a ELSE b
Min(a, b) == IF a <= b THEN a ELSE b
Abs(a) == IF a >= 0 THEN a ELSE 0 - a
\* u64::saturating_sub
SaturatingSub(a, b) == IF a >= b THEN a - b ELSE 0

RECURSIVE Pow(_, _)
Pow(b, e) == IF e = 0 THEN 1 ELSE b * Pow(b, e - 1)

\* srtt_ms and rttvar_ms are f64; the model holds them as exact multiples of
\* 1/FixedUnit ms.  A session feeds at most MaxPush samples, each update
\* divides by at most 8, so every value is exactly representable (and is an
\* exact f64, having fewer than 53 significant bits).
FixedUnit == Pow(8, MaxPush)

---------------------------------------------------------------------------
(* mosh-proto: Instruction and its wire codec *)

\* the key byte (field number << 3 | wire type) of each Instruction field
FieldKey(f) ==
    CASE f = "protocol_version" -> 8
      [] f = "old_num" -> 16
      [] f = "new_num" -> 24
      [] f = "ack_num" -> 32
      [] f = "throwaway_num" -> 40
      [] f = "diff" -> 50
      [] f = "chaff" -> 58

EmptyInstruction ==
    [protocol_version |-> None, old_num |-> None, new_num |-> None,
     ack_num |-> None, throwaway_num |-> None, diff |-> None, chaff |-> None]

new_send(old_num, new_num, ack_num, throwaway_num, diff) ==
    [protocol_version |-> Some(MOSH_PROTOCOL_VERSION),
     old_num |-> Some(old_num),
     new_num |-> Some(new_num),
     ack_num |-> Some(ack_num),
     throwaway_num |-> Some(throwaway_num),
     diff |-> IF diff = <<>> THEN None ELSE Some(diff),
     chaff |-> None]

new_ack(ack_num, throwaway_num) ==
    [protocol_version |-> Some(MOSH_PROTOCOL_VERSION),
     old_num |-> Some(0),
     new_num |-> Some(0),
     ack_num |-> Some(ack_num),
     throwaway_num |-> Some(throwaway_num),
     diff |-> None,
     chaff |-> None]

old_num_or_zero(instr) == UnwrapOr(instr.old_num, 0)
new_num_or_zero(instr) == UnwrapOr(instr.new_num, 0)
ack_num_or_zero(instr) == UnwrapOr(instr.ack_num, 0)
throwaway_num_or_zero(instr) == UnwrapOr(instr.throwaway_num, 0)
has_diff(instr) == IsSome(instr.diff) /\ instr.diff[1] # <<>>
diff_bytes(instr) == UnwrapOr(instr.diff, <<>>)

EncodeVarintField(f, o) == IF IsSome(o) THEN <<FieldKey(f), o[1]>> ELSE <<>>
EncodeBytesField(f, o) == IF IsSome(o) THEN <<FieldKey(f), Len(o[1])>> \o o[1] ELSE <<>>

\* present fields only, in field-number order
encode_to_bytes(instr) ==
    EncodeVarintField("protocol_version", instr.protocol_version)
    \o EncodeVarintField("old_num", instr.old_num)
    \o EncodeVarintField("new_num", instr.new_num)
    \o EncodeVarintField("ack_num", instr.ack_num)
    \o EncodeVarintField("throwaway_num", instr.throwaway_num)
    \o EncodeBytesField("diff", instr.diff)
    \o EncodeBytesField("chaff", instr.chaff)

VarintFields == {"protocol_version", "old_num", "new_num", "ack_num", "throwaway_num"}
BytesFields == {"diff", "chaff"}

\* the tag/value loop of the decoder: <<ok, instr>>; a key or a value that
\* runs past the end of the buffer, or an unknown key, fails the decode
RECURSIVE DecodeFields(_, _, _)
DecodeFields(bytes, i, acc) ==
    IF i > Len(bytes) THEN <<TRUE, acc>>
    ELSE IF i + 1 > Len(bytes) THEN <<FALSE, acc>>
    ELSE IF \E f \in VarintFields : FieldKey(f) = bytes[i]
        THEN LET f == CHOOSE g \in VarintFields : FieldKey(g) = bytes[i]
             IN DecodeFields(bytes, i + 2, [acc EXCEPT ![f] = Some(bytes[i + 1])])
    ELSE IF \E f \in BytesFields : FieldKey(f) = bytes[i]
        THEN LET f == CHOOSE g \in BytesFields : FieldKey(g) = bytes[i]
                 n == bytes[i + 1]
             IN IF i + 1 + n > Len(bytes) THEN <<FALSE, acc>>
                ELSE DecodeFields(bytes, i + 2 + n,
                        [acc EXCEPT ![f] = Some(SubSeq(bytes, i + 2, i + 1 + n))])
    ELSE <<FALSE, acc>>

\* [ok, err, instr]
decode_from_bytes(bytes) ==
    LET d == DecodeFields(bytes, 1, EmptyInstruction)
    IN IF ~d[1] THEN [ok |-> FALSE, err |-> "DecodeFailed", instr |-> EmptyInstruction]
       ELSE IF IsSome(d[2].protocol_version)
               /\ d[2].protocol_version[1] # MOSH_PROTOCOL_VERSION
            THEN [ok |-> FALSE, err |-> "InvalidProtocolVersion", instr |-> EmptyInstruction]
       ELSE [ok |-> TRUE, err |-> "", instr |-> d[2]]

---------------------------------------------------------------------------
(* mosh-ssp: SspSession *)

SspSession_new ==
    [next_send_num |-> 1,
     last_acked |-> 0,
     pending |-> <<>>,
     outgoing_diff |-> <<>>,
     last_send_ms |-> 0,
     last_recv_num |-> 0,
     throwaway_num |-> 0,
     last_recv_ms |-> 0,
     srtt_ms |-> 0,
     rttvar_ms |-> 0,
     rto_ms |-> RTO_INITIAL_MS]

\* mutant: a push replaces what the buffer holds
push_payload_Replace(s, diff) == [s EXCEPT !.outgoing_diff = diff]

push_payload(s, diff) == [s EXCEPT !.outgoing_diff = @ \o diff]

\* mutant: the send counter is not advanced
make_send_instruction_NoIncrement(s, diff, now_ms) ==
    <<s, new_send(s.last_acked, s.next_send_num, s.last_recv_num, s.throwaway_num, diff)>>

\* mutant: the send counter is advanced by two
make_send_instruction_SkipOne(s, diff, now_ms) ==
    <<[s EXCEPT !.next_send_num = @ + 2],
      new_send(s.last_acked, s.next_send_num, s.last_recv_num, s.throwaway_num, diff)>>

\* <<session, instruction>>
make_send_instruction(s, diff, now_ms) ==
    <<[s EXCEPT !.next_send_num = @ + 1],
      new_send(s.last_acked, s.next_send_num, s.last_recv_num, s.throwaway_num, diff)>>

\* mutant: queueing a record does not touch last_send_ms
enqueue_pending_KeepSendTime(s, num, payload, now_ms) ==
    [s EXCEPT !.pending = Append(@, [num |-> num, payload |-> payload,
                                     sent_at_ms |-> now_ms, retransmit_count |-> 0])]

enqueue_pending(s, num, payload, now_ms) ==
    [s EXCEPT !.pending = Append(@, [num |-> num, payload |-> payload,
                                     sent_at_ms |-> now_ms, retransmit_count |-> 0]),
              !.last_send_ms = now_ms]

\* mutant: the heartbeat acknowledges nothing
make_ack_ZeroAck(s, now_ms) == new_ack(0, s.throwaway_num)

make_ack(s, now_ms) == new_ack(s.last_recv_num, s.throwaway_num)

\* mutant: a heartbeat is needed only after more than the interval
needs_heartbeat_Late(s, now_ms) ==
    SaturatingSub(now_ms, s.last_send_ms) > HEARTBEAT_INTERVAL_MS

needs_heartbeat(s, now_ms) ==
    SaturatingSub(now_ms, s.last_send_ms) >= HEARTBEAT_INTERVAL_MS

\* mutant: a record is due only after more than the RTO has passed
IsDue_Ceiling(p, now_ms, rto) ==
    p.retransmit_count < 2 /\ SaturatingSub(now_ms, p.sent_at_ms) >= rto
IsDue_Strict(p, now_ms, rto) == SaturatingSub(now_ms, p.sent_at_ms) > rto

\* the retransmission test of tick
IsDue(p, now_ms, rto) == SaturatingSub(now_ms, p.sent_at_ms) >= rto

\* mutant: nothing is ever retransmitted
Retransmit_Never(pending, now_ms, rto) == <<pending, <<>>>>

\* mutant: at most one record is retransmitted per tick
Retransmit_Paced(pending, now_ms, rto) ==
    LET due == {i \in 1..Len(pending) : IsDue(pending[i], now_ms, rto)}
        first == {i \in due : \A j \in due : i <= j}
    IN <<[i \in 1..Len(pending) |->
             IF i \in first
             THEN [pending[i] EXCEPT !.sent_at_ms = now_ms, !.retransmit_count = @ + 1]
             ELSE pending[i]],
         [k \in 1..Cardinality(first) |-> pending[CHOOSE i \in first : TRUE].payload]>>

\* the retransmission loop of tick: <<pending, emitted>>
Retransmit(pending, now_ms, rto) ==
    LET due == {i \in 1..Len(pending) : IsDue(pending[i], now_ms, rto)}
        upd == [i \in 1..Len(pending) |->
                   IF i \in due
                   THEN [pending[i] EXCEPT !.sent_at_ms = now_ms,
                                           !.retransmit_count = @ + 1]
                   ELSE pending[i]]
        RECURSIVE Emit(_)
        Emit(i) == IF i > Len(pending) THEN <<>>
                   ELSE (IF i \in due THEN <<pending[i].payload>> ELSE <<>>) \o Emit(i + 1)
    IN <<upd, Emit(1)>>

\* <<session, to_send>>
tick(s, now_ms) ==
    LET fresh == s.outgoing_diff # <<>>
        made == make_send_instruction([s EXCEPT !.outgoing_diff = <<>>],
                                      s.outgoing_diff, now_ms)
        bytes == encode_to_bytes(made[2])
        s1 == IF fresh
              THEN enqueue_pending(made[1], new_num_or_zero(made[2]), bytes, now_ms)
              ELSE s
        out1 == IF fresh THEN <<bytes>> ELSE <<>>
        rt == Retransmit(s1.pending, now_ms, s1.rto_ms)
        s2 == [s1 EXCEPT !.pending = rt[1]]
        out2 == out1 \o rt[2]
        beat == out2 = <<>> /\ needs_heartbeat(s2, now_ms)
    IN IF beat
       THEN <<[s2 EXCEPT !.last_send_ms = now_ms], <<encode_to_bytes(make_ack(s2, now_ms))>>>>
       ELSE <<s2, out2>>

\* mutant: the RTO is stored as computed
ClampRto_None(rto) == rto

\* (rto as u64).clamp(RTO_MIN_MS, RTO_MAX_MS)
ClampRto(rto) == Max(RTO_MIN_MS, Min(RTO_MAX_MS, rto))

\* Jacobson/Karels; srtt_ms and rttvar_ms in units of 1/FixedUnit ms
update_rtt(s, rtt_sample_ms) ==
    LET rtt == rtt_sample_ms * FixedUnit
        first == s.srtt_ms = 0
        rttvar == IF first THEN rtt \div 2
                  ELSE (3 * s.rttvar_ms + Abs(s.srtt_ms - rtt)) \div 4
        srtt == IF first THEN rtt ELSE (7 * s.srtt_ms + rtt) \div 8
        rto == srtt + Max(4 * rttvar, 50 * FixedUnit)
    IN [s EXCEPT !.srtt_ms = srtt,
                 !.rttvar_ms = rttvar,
                 !.rto_ms = ClampRto(rto \div FixedUnit)]

\* mutant: an ACK retires the front record only
DrainAcked_FrontOnly(s, ack_num, now_ms) ==
    IF s.pending # <<>> /\ Head(s.pending).num <= ack_num
    THEN [s EXCEPT !.pending = Tail(@)]
    ELSE s

\* mutant: every retired record feeds an RTT sample, retransmitted or not
RECURSIVE DrainAcked_SampleAll(_, _, _)
DrainAcked_SampleAll(s, ack_num, now_ms) ==
    IF s.pending # <<>> /\ Head(s.pending).num <= ack_num
    THEN LET p == Head(s.pending)
             s1 == [s EXCEPT !.pending = Tail(@)]
             s2 == update_rtt(s1, SaturatingSub(now_ms, p.sent_at_ms))
         IN DrainAcked_SampleAll(s2, ack_num, now_ms)
    ELSE s

\* the drain loop of process_ack
RECURSIVE DrainAcked(_, _, _)
DrainAcked(s, ack_num, now_ms) ==
    IF s.pending # <<>> /\ Head(s.pending).num <= ack_num
    THEN LET p == Head(s.pending)
             s1 == [s EXCEPT !.pending = Tail(@)]
             s2 == IF p.retransmit_count = 0
                   THEN update_rtt(s1, SaturatingSub(now_ms, p.sent_at_ms))
                   ELSE s1
         IN DrainAcked(s2, ack_num, now_ms)
    ELSE s

\* mutant: an ACK is taken whether or not it is above last_acked
process_ack_Unguarded(s, ack_num, now_ms) ==
    [DrainAcked(s, ack_num, now_ms) EXCEPT !.last_acked = ack_num]

process_ack(s, ack_num, now_ms) ==
    IF ack_num <= s.last_acked THEN s
    ELSE [DrainAcked(s, ack_num, now_ms) EXCEPT !.last_acked = ack_num]

\* mutant: every numbered Instruction is taken as new
IsDuplicate_Never(new_num, last_recv_num) == FALSE

\* mutant: an Instruction numbered last_recv_num is taken as new
IsDuplicate_Strict(new_num, last_recv_num) == new_num < last_recv_num

\* the duplicate test of recv_instruction
IsDuplicate(new_num, last_recv_num) == new_num <= last_recv_num

\* mutant: the receive watermark is never advanced
AdvanceRecvNum_Skip(s, new_num) == s

\* mutant: the receive watermark stops one short of the Instruction taken
AdvanceRecvNum_Lag(s, new_num) == [s EXCEPT !.last_recv_num = new_num - 1]

\* the watermark update of recv_instruction
AdvanceRecvNum(s, new_num) == [s EXCEPT !.last_recv_num = new_num]

\* mutant: a heartbeat or a duplicate is dropped before anything is recorded
recv_instruction_DropFirst(s, instr, now_ms) ==
    LET new_num == new_num_or_zero(instr)
        throwaway_num == throwaway_num_or_zero(instr)
        s1 == process_ack(s, ack_num_or_zero(instr), now_ms)
        s2 == IF throwaway_num > s1.throwaway_num
              THEN [s1 EXCEPT !.throwaway_num = throwaway_num]
              ELSE s1
        s3 == [s2 EXCEPT !.last_recv_ms = now_ms]
    IN IF new_num = 0 \/ IsDuplicate(new_num, s.last_recv_num) THEN <<s, None>>
       ELSE <<AdvanceRecvNum(s3, new_num),
              IF has_diff(instr) THEN Some(UnwrapOr(instr.diff, <<>>)) ELSE None>>

\* <<session, Option<diff>>>
recv_instruction(s, instr, now_ms) ==
    LET new_num == new_num_or_zero(instr)
        ack_num == ack_num_or_zero(instr)
        throwaway_num == throwaway_num_or_zero(instr)
        s1 == process_ack(s, ack_num, now_ms)
        s2 == IF throwaway_num > s1.throwaway_num
              THEN [s1 EXCEPT !.throwaway_num = throwaway_num]
              ELSE s1
        s3 == [s2 EXCEPT !.last_recv_ms = now_ms]
    IN IF new_num = 0 THEN <<s3, None>>
       ELSE IF IsDuplicate(new_num, s3.last_recv_num) THEN <<s3, None>>
       ELSE <<AdvanceRecvNum(s3, new_num),
              IF has_diff(instr) THEN Some(UnwrapOr(instr.diff, <<>>)) ELSE None>>

---------------------------------------------------------------------------
(* Big-endian integers *)

\* the n bytes of to_be_bytes
RECURSIVE ToBE(_, _)
ToBE(v, n) == IF n = 0 THEN <<>> ELSE Append(ToBE(v \div 256, n - 1), v % 256)

\* from_be_bytes
RECURSIVE FromBE(_)
FromBE(bytes) ==
    IF bytes = <<>> THEN 0
    ELSE 256 * FromBE(SubSeq(bytes, 1, Len(bytes) - 1)) + bytes[Len(bytes)]

---------------------------------------------------------------------------
(* mosh-crypto: Direction, MoshNonce, CryptoSession.  The AEAD itself is    *)
(* modelled by what it guarantees: a ciphertext opens only under the key    *)
(* and the nonce it was sealed with.  A 64-bit direction_seq is kept as its *)
(* eight big-endian bytes; bit 63 is the top bit of the first byte.         *)

ToServer == 0
ToClient == 1

\* mutant: bit 63 is cleared for both directions
apply_to_seq_Clear(direction, seq) ==
    LET b == ToBE(seq, 8)
    IN [b EXCEPT ![1] = b[1] % 128]

\* Direction::apply_to_seq, as the eight bytes of the result
apply_to_seq(direction, seq) ==
    LET b == ToBE(seq, 8)
    IN [b EXCEPT ![1] = (b[1] % 128) + (IF direction = ToClient THEN 128 ELSE 0)]

\* Direction::from_seq
from_seq(direction_seq) ==
    IF direction_seq[1] \div 128 = 0 THEN ToServer ELSE ToClient

\* CryptoSession::from_key
from_key(key) == [key |-> key, send_seq |-> 0, recv_seq |-> 0]

\* cipher.encrypt: the sealed plaintext, tag included
AeadEncrypt(key, nonce, plaintext) ==
    [key |-> key, nonce |-> nonce, plaintext |-> plaintext]

\* cipher.decrypt: Option<plaintext>
AeadDecrypt(key, nonce, ciphertext) ==
    IF ciphertext.key = key /\ ciphertext.nonce = nonce
    THEN Some(ciphertext.plaintext) ELSE None

\* a UDP payload: the nonce tail, the ciphertext, and its length in bytes
UdpPayload(nonce_tail, ciphertext) ==
    [nonce_tail |-> nonce_tail, ciphertext |-> ciphertext,
     len |-> Len(nonce_tail) + Len(ciphertext.plaintext) + 16]

\* mutant: send_seq is used but not raised
encrypt_packet_Reuse(c, direction, timestamp, timestamp_reply, payload) ==
    LET seq == c.send_seq
        direction_seq == apply_to_seq(direction, seq)
        plaintext == direction_seq \o ToBE(timestamp, 2) \o ToBE(timestamp_reply, 2)
                     \o payload
    IN <<c, UdpPayload(direction_seq, AeadEncrypt(c.key, direction_seq, plaintext))>>

\* <<session, packet>>
encrypt_packet(c, direction, timestamp, timestamp_reply, payload) ==
    LET seq == c.send_seq
        direction_seq == apply_to_seq(direction, seq)
        plaintext == direction_seq \o ToBE(timestamp, 2) \o ToBE(timestamp_reply, 2)
                     \o payload
    IN <<[c EXCEPT !.send_seq = seq + 1],
         UdpPayload(direction_seq, AeadEncrypt(c.key, direction_seq, plaintext))>>

NoDecrypted ==
    [seq |-> 0, direction |-> ToServer, timestamp |-> 0, timestamp_reply |-> 0,
     payload |-> <<>>]

\* mutant: a rejected packet still moves recv_seq
DecryptFailure_MovesSeq(c, err) ==
    [ok |-> FALSE, err |-> err, crypto |-> [c EXCEPT !.recv_seq = c.recv_seq + 1],
     packet |-> NoDecrypted]

\* the early returns of decrypt_packet: the session is left as it was
DecryptFailure(c, err) ==
    [ok |-> FALSE, err |-> err, crypto |-> c, packet |-> NoDecrypted]

\* mutant: a packet whose direction bit says ToServer is rejected
decrypt_packet_ToClientOnly(c, packet) ==
    IF packet.len < 24 THEN DecryptFailure(c, "PacketTooShort")
    ELSE IF AeadDecrypt(c.key, packet.nonce_tail, packet.ciphertext) = None
         THEN DecryptFailure(c, "DecryptionFailed")
    ELSE IF Len(packet.ciphertext.plaintext) < 12
            \/ from_seq(SubSeq(packet.ciphertext.plaintext, 1, 8)) = ToServer
         THEN DecryptFailure(c, "DecryptionFailed")
    ELSE [ok |-> TRUE, err |-> "",
          crypto |-> [c EXCEPT !.recv_seq =
                         FromBE([SubSeq(packet.ciphertext.plaintext, 1, 8)
                                    EXCEPT ![1] = @ % 128])],
          packet |->
            [seq |-> FromBE([SubSeq(packet.ciphertext.plaintext, 1, 8)
                                EXCEPT ![1] = @ % 128]),
             direction |-> from_seq(SubSeq(packet.ciphertext.plaintext, 1, 8)),
             timestamp |-> FromBE(SubSeq(packet.ciphertext.plaintext, 9, 10)),
             timestamp_reply |-> FromBE(SubSeq(packet.ciphertext.plaintext, 11, 12)),
             payload |-> SubSeq(packet.ciphertext.plaintext, 13,
                                Len(packet.ciphertext.plaintext))]]

\* [ok, err, crypto, packet]
decrypt_packet(c, packet) ==
    IF packet.len < 24 THEN DecryptFailure(c, "PacketTooShort")
    ELSE LET opened == AeadDecrypt(c.key, packet.nonce_tail, packet.ciphertext)
         IN IF opened = None THEN DecryptFailure(c, "DecryptionFailed")
            ELSE LET plaintext == opened[1]
                 IN IF Len(plaintext) < 12 THEN DecryptFailure(c, "DecryptionFailed")
                    ELSE LET direction_seq == SubSeq(plaintext, 1, 8)
                             seq == FromBE([direction_seq EXCEPT ![1] = @ % 128])
                         IN [ok |-> TRUE, err |-> "",
                             crypto |-> [c EXCEPT !.recv_seq = seq],
                             packet |->
                               [seq |-> seq,
                                direction |-> from_seq(direction_seq),
                                timestamp |-> FromBE(SubSeq(plaintext, 9, 10)),
                                timestamp_reply |-> FromBE(SubSeq(plaintext, 11, 12)),
                                payload |-> SubSeq(plaintext, 13, Len(plaintext))]]

---------------------------------------------------------------------------
(* mosh-transport: Timestamp16, Fragment, Fragmenter, FragmentAssembly *)

now_from_ms(now_ms) == now_ms % 65536
Timestamp16_INIT == 65535

HEADER_LEN == 10

NoFragment ==
    [instruction_id |-> 0, fragment_num |-> 0, is_final |-> FALSE, payload |-> <<>>]

\* [ok, err, frag]
Fragment_from_bytes(bytes) ==
    IF Len(bytes) < HEADER_LEN THEN [ok |-> FALSE, err |-> "TooShort", frag |-> NoFragment]
    ELSE LET frag_word == FromBE(SubSeq(bytes, 9, 10))
         IN [ok |-> TRUE, err |-> "",
             frag |-> [instruction_id |-> FromBE(SubSeq(bytes, 1, 8)),
                       fragment_num |-> frag_word % 32768,
                       is_final |-> (frag_word \div 32768) = 1,
                       payload |-> SubSeq(bytes, HEADER_LEN + 1, Len(bytes))]]

Fragment_to_bytes(frag) ==
    LET frag_word == IF frag.is_final /\ frag.fragment_num < 32768
                     THEN frag.fragment_num + 32768
                     ELSE frag.fragment_num
    IN ToBE(frag.instruction_id, 8) \o ToBE(frag_word, 2) \o frag.payload

Fragmenter_new(app_mtu) == [next_instruction_id |-> 1, app_payload_mtu |-> app_mtu]

\* mutant: the bytes are never split
Chunks_Whole(bytes, mtu) == <<bytes>>

\* instruction_bytes.chunks(mtu)
RECURSIVE Chunks(_, _)
Chunks(bytes, mtu) ==
    IF Len(bytes) <= mtu THEN <<bytes>>
    ELSE <<SubSeq(bytes, 1, mtu)>> \o Chunks(SubSeq(bytes, mtu + 1, Len(bytes)), mtu)

\* mutant: the instruction id counter is not advanced
make_fragments_ReuseId(f, instruction_bytes) ==
    LET id == f.next_instruction_id
        chunks == Chunks(instruction_bytes, f.app_payload_mtu)
    IN <<f, [i \in 1..Len(chunks) |->
                [instruction_id |-> id,
                 fragment_num |-> (i - 1) % 65536,
                 is_final |-> i = Len(chunks),
                 payload |-> chunks[i]]]>>

\* <<fragmenter, fragments>>
make_fragments(f, instruction_bytes) ==
    LET id == f.next_instruction_id
        f1 == [f EXCEPT !.next_instruction_id = id + 1]
    IN IF instruction_bytes = <<>>
       THEN <<f1, <<[instruction_id |-> id, fragment_num |-> 0, is_final |-> TRUE,
                     payload |-> <<>>]>>>>
       ELSE LET chunks == Chunks(instruction_bytes, f.app_payload_mtu)
            IN <<f1, [i \in 1..Len(chunks) |->
                        [instruction_id |-> id,
                         fragment_num |-> (i - 1) % 65536,
                         is_final |-> i = Len(chunks),
                         payload |-> chunks[i]]]>>

\* arrived maps fragment_num to Fragment; it is kept as the set of its values
FragmentAssembly_new == [current_id |-> None, arrived |-> {}, final_fragment_num |-> None]

\* mutant: a new id is recorded but nothing is cleared
reset_if_new_id_Keep(a, id) == [a EXCEPT !.current_id = Some(id)]

reset_if_new_id(a, id) ==
    IF a.current_id = Some(id) THEN a
    ELSE [current_id |-> Some(id), arrived |-> {}, final_fragment_num |-> None]

RECURSIVE Assemble(_, _, _)
Assemble(arrived, num, final_num) ==
    IF num > final_num THEN <<>>
    ELSE (CHOOSE g \in arrived : g.fragment_num = num).payload
         \o Assemble(arrived, num + 1, final_num)

\* mutant: the message is returned one fragment early, built from the
\* fragments that are there
RECURSIVE AssemblePresent(_, _, _)
AssemblePresent(arrived, num, final_num) ==
    IF num > final_num THEN <<>>
    ELSE (IF \E g \in arrived : g.fragment_num = num
          THEN (CHOOSE g \in arrived : g.fragment_num = num).payload
          ELSE <<>>)
         \o AssemblePresent(arrived, num + 1, final_num)
try_assemble_OneShort(a) ==
    IF a.final_fragment_num = None THEN None
    ELSE LET final_num == a.final_fragment_num[1]
         IN IF Cardinality(a.arrived) < final_num
            THEN None
            ELSE Some(AssemblePresent(a.arrived, 0, final_num))

\* Option<bytes>
try_assemble(a) ==
    IF a.final_fragment_num = None THEN None
    ELSE LET final_num == a.final_fragment_num[1]
         IN IF \E num \in 0..final_num : ~\E g \in a.arrived : g.fragment_num = num
            THEN None
            ELSE Some(Assemble(a.arrived, 0, final_num))

\* <<assembly, Option<bytes>>>
add_fragment(a, frag) ==
    LET a1 == reset_if_new_id(a, frag.instruction_id)
        a2 == IF a1.current_id = None
              THEN [a1 EXCEPT !.current_id = Some(frag.instruction_id)] ELSE a1
        a3 == IF frag.is_final
              THEN [a2 EXCEPT !.final_fragment_num = Some(frag.fragment_num)] ELSE a2
        a4 == [a3 EXCEPT !.arrived =
                 {g \in a3.arrived : g.fragment_num # frag.fragment_num} \cup {frag}]
    IN <<a4, try_assemble(a4)>>

---------------------------------------------------------------------------
(* mosh-stream: StreamChannel *)

StreamChannel_new ==
    [recv_buffer |-> <<>>, send_buffer |-> <<>>, total_received |-> 0, total_sent |-> 0]

write(st, data) == [st EXCEPT !.send_buffer = @ \o data]

\* <<stream, diff>>
take_pending_diff(st) ==
    <<[st EXCEPT !.send_buffer = <<>>, !.total_sent = @ + Len(st.send_buffer)],
      st.send_buffer>>

apply_diff(st, diff) ==
    [st EXCEPT !.recv_buffer = @ \o diff, !.total_received = @ + Len(diff)]

\* mutant: the bytes read stay in the buffer
read_available_Keep(st) == <<st, st.recv_buffer>>

\* <<stream, data>>
read_available(st) == <<[st EXCEPT !.recv_buffer = <<>>], st.recv_buffer>>

\* mutant: the stream never reports unread bytes
has_pending_read_Never(st) == FALSE

has_pending_read(st) == st.recv_buffer # <<>>

---------------------------------------------------------------------------
(* mosh-wasm: MoshClient.  Its fields are the variables crypto, fragmenter, *)
(* assembly, ssp, stream and last_remote_timestamp; a client value is the   *)
(* record of them.                                                          *)

DEFAULT_MTU == 500
CRYPTO_OVERHEAD == 46
MIN_APP_MTU == 64

\* the key the client was constructed with, and another key
ClientKey == "AA"
OtherKey == "BB"

MoshClient_new(key, mtu) ==
    [crypto |-> from_key(key),
     fragmenter |-> Fragmenter_new(Max(SaturatingSub(UnwrapOr(mtu, DEFAULT_MTU),
                                                     CRYPTO_OVERHEAD), MIN_APP_MTU)),
     assembly |-> FragmentAssembly_new,
     ssp |-> SspSession_new,
     stream |-> StreamChannel_new,
     last_remote_timestamp |-> Timestamp16_INIT]

\* <<crypto, packets>>: encrypt_packet for every fragment, in order
RECURSIVE EncryptAll(_, _, _, _)
EncryptNext(e, rest, timestamp, timestamp_reply) ==
    LET r == EncryptAll(e[1], rest, timestamp, timestamp_reply)
    IN <<r[1], <<e[2]>> \o r[2]>>

EncryptAll(c, fragments, timestamp, timestamp_reply) ==
    IF fragments = <<>> THEN <<c, <<>>>>
    ELSE EncryptNext(encrypt_packet(c, ToServer, timestamp, timestamp_reply,
                                    Fragment_to_bytes(Head(fragments))),
                     Tail(fragments), timestamp, timestamp_reply)

SealFragments(c, mf, timestamp, timestamp_reply) ==
    LET r == EncryptAll(c, mf[2], timestamp, timestamp_reply)
    IN <<r[1], mf[1], r[2]>>

\* <<crypto, fragmenter, packets>> for one Instruction
encrypt_and_fragment(c, f, timestamp_reply, instruction_bytes, now_ms) ==
    SealFragments(c, make_fragments(f, instruction_bytes), now_from_ms(now_ms),
                  timestamp_reply)

\* <<client, packets>>: encrypt_and_fragment for every Instruction, in order
RECURSIVE SealAll(_, _, _)
SealNext(cl, e, rest, now_ms) ==
    LET r == SealAll([cl EXCEPT !.crypto = e[1], !.fragmenter = e[2]], rest, now_ms)
    IN <<r[1], e[3] \o r[2]>>

SealAll(cl, instructions, now_ms) ==
    IF instructions = <<>> THEN <<cl, <<>>>>
    ELSE SealNext(cl, encrypt_and_fragment(cl.crypto, cl.fragmenter,
                                           cl.last_remote_timestamp,
                                           Head(instructions), now_ms),
                  Tail(instructions), now_ms)

FlushTicked(cl, tk, now_ms) == SealAll([cl EXCEPT !.ssp = tk[1]], tk[2], now_ms)

FlushTaken(cl, tp, now_ms) ==
    FlushTicked([cl EXCEPT !.stream = tp[1]],
                tick(IF tp[2] # <<>> THEN push_payload(cl.ssp, tp[2]) ELSE cl.ssp,
                     now_ms),
                now_ms)

\* <<client, packets>>: take_pending_diff, push_payload, tick, then
\* encrypt_and_fragment for every Instruction
flush_to_udp(cl, now_ms) == FlushTaken(cl, take_pending_diff(cl.stream), now_ms)

\* <<client, packets>>
send_data(cl, data, now_ms) ==
    flush_to_udp([cl EXCEPT !.stream = write(cl.stream, data)], now_ms)

\* mutant: tick drives the SSP session but hands no datagram to the host
MoshClient_tick_Silent(cl, now_ms) ==
    <<FlushTaken(cl, take_pending_diff(cl.stream), now_ms)[1], <<>>>>

\* <<client, packets>>
MoshClient_tick(cl, now_ms) == FlushTaken(cl, take_pending_diff(cl.stream), now_ms)

\* the results of recv_udp_packet
RecvErr(err) == [ok |-> FALSE, err |-> err, data |-> <<>>]
RecvOk(data) == [ok |-> TRUE, err |-> "", data |-> data]

\* recv_udp_packet, after recv_instruction: the stream buffer is handed out
ReadOut(cl) ==
    IF has_pending_read(cl.stream)
    THEN <<[cl EXCEPT !.stream = read_available(cl.stream)[1]],
           RecvOk(read_available(cl.stream)[2])>>
    ELSE <<cl, RecvOk(<<>>)>>

OnPayload(cl, ri) ==
    ReadOut([cl EXCEPT !.ssp = ri[1],
                       !.stream = IF IsSome(ri[2]) THEN apply_diff(cl.stream, ri[2][1])
                                  ELSE cl.stream])

\* recv_udp_packet, after decode_from_bytes
OnInstruction(cl, de, now_ms) ==
    IF ~de.ok THEN <<cl, RecvErr(de.err)>>
    ELSE OnPayload(cl, recv_instruction(cl.ssp, de.instr, now_ms))

\* mutant: a fragment that completes nothing still counts as peer traffic
OnAssembled_Stamp(cl, af, now_ms) ==
    IF af[2] = None
    THEN <<[cl EXCEPT !.assembly = af[1], !.ssp.last_recv_ms = now_ms], RecvOk(<<>>)>>
    ELSE OnInstruction([cl EXCEPT !.assembly = af[1]], decode_from_bytes(af[2][1]),
                       now_ms)

\* recv_udp_packet, after add_fragment
OnAssembled(cl, af, now_ms) ==
    IF af[2] = None THEN <<[cl EXCEPT !.assembly = af[1]], RecvOk(<<>>)>>
    ELSE OnInstruction([cl EXCEPT !.assembly = af[1]], decode_from_bytes(af[2][1]),
                       now_ms)

\* recv_udp_packet, after Fragment::from_bytes
OnFragment(cl, fr, now_ms) ==
    IF ~fr.ok THEN <<cl, RecvErr(fr.err)>>
    ELSE OnAssembled(cl, add_fragment(cl.assembly, fr.frag), now_ms)

\* recv_udp_packet, after decrypt_packet
OnDecrypted(cl, dec, now_ms) ==
    IF ~dec.ok THEN <<[cl EXCEPT !.crypto = dec.crypto], RecvErr(dec.err)>>
    ELSE OnFragment([cl EXCEPT !.crypto = dec.crypto,
                               !.last_remote_timestamp = dec.packet.timestamp],
                    Fragment_from_bytes(dec.packet.payload), now_ms)

\* <<client, [ok, err, data]>>
recv_udp_packet(cl, udp_bytes, now_ms) ==
    OnDecrypted(cl, decrypt_packet(cl.crypto, udp_bytes), now_ms)

---------------------------------------------------------------------------
(* Spec: one SspSession driven by any sequence of push_payload, tick and   *)
(* recv_instruction calls, with any field values in the Instructions.      *)

NoCall == [op |-> "new", now |-> 0, instr |-> EmptyInstruction, udp |-> None,
           out |-> <<>>, ok |-> TRUE, err |-> "", ret |-> None, arg |-> None]

\* the Instructions handed to recv_instruction under Spec: any new_num, any
\* ack_num, two throwaway_num values; a numbered Instruction carries a diff
RecvInstrs ==
    {new_send(0, n, a, t, IF n = 0 THEN <<>> ELSE <<7>>) :
        n \in 0..MaxNum, a \in 0..MaxNum, t \in {0, 1}}

RECURSIVE Flatten(_)
Flatten(ss) == IF ss = <<>> THEN <<>> ELSE Head(ss) \o Flatten(Tail(ss))

\* the number of bytes the host has pushed so far
PushedLen == Len(Flatten(pushed))

Init ==
    /\ crypto = MoshClient_new(ClientKey, None).crypto
    /\ fragmenter = MoshClient_new(ClientKey, None).fragmenter
    /\ assembly = MoshClient_new(ClientKey, None).assembly
    /\ ssp = MoshClient_new(ClientKey, None).ssp
    /\ stream = MoshClient_new(ClientKey, None).stream
    /\ last_remote_timestamp = MoshClient_new(ClientKey, None).last_remote_timestamp
    /\ sent = <<>>
    /\ call = NoCall
    /\ pushed = <<>>
    /\ peer = SspSession_new
    /\ net = {}
    /\ back = {}
    /\ fifo = <<>>
    /\ delivered = <<>>
    /\ msgs = <<>>
    /\ frags = {}
    /\ fed = {}
    /\ peer_crypto = from_key(ClientKey)
    /\ wire = <<>>
    /\ taken = <<>>
    /\ applied = <<>>
    /\ readout = <<>>

PushPayload(d) ==
    /\ PushedLen + Len(d) <= MaxPush
    /\ ssp' = push_payload(ssp, d)
    /\ pushed' = Append(pushed, d)
    /\ call' = [NoCall EXCEPT !.op = "push_payload"]
    /\ UNCHANGED <<sent, linkVars, clientVars, unitVars, streamVars>>

Tick(now) ==
    LET r == tick(ssp, now)
    IN /\ ssp' = r[1]
       /\ sent' = IF ssp.outgoing_diff # <<>> THEN Append(sent, ssp.outgoing_diff) ELSE sent
       /\ call' = [NoCall EXCEPT !.op = "tick", !.now = now, !.out = r[2]]
       /\ UNCHANGED <<pushed, linkVars, clientVars, unitVars, streamVars>>

RecvInstruction(instr, now) ==
    LET r == recv_instruction(ssp, instr, now)
    IN /\ ssp' = r[1]
       /\ call' = [NoCall EXCEPT !.op = "recv_instruction", !.now = now,
                                 !.instr = instr, !.ret = r[2]]
       /\ UNCHANGED <<sent, pushed, linkVars, clientVars, unitVars, streamVars>>

Next ==
    \/ PushPayload(Stream(PushedLen, 1))
    \/ \E now \in Times : Tick(now)
    \/ \E instr \in RecvInstrs, now \in RecvTimes : RecvInstruction(instr, now)

Spec == Init /\ [][Next]_vars

(* SpecTimer: one SspSession as a sender, with a finer clock; the peer      *)
(* sends pure ACKs (heartbeats) with any ack_num.                          *)
NextTimer ==
    \/ PushPayload(Stream(PushedLen, 1))
    \/ \E now \in TimerTimes : Tick(now)
    \/ \E a \in 0..MaxNum, now \in TimerTimes : RecvInstruction(new_ack(a, 0), now)

SpecTimer == Init /\ [][NextTimer]_vars

---------------------------------------------------------------------------
(* SpecLink: a sender (ssp) and a receiver (peer) joined by a link that may *)
(* drop, duplicate and reorder: everything a side has emitted stays         *)
(* deliverable any number of times, in any order, or never.                 *)

LinkTimes == {0, 3000}

SetOf(seq) == {seq[i] : i \in 1..Len(seq)}

\* the sender's tick; its Instructions enter the link
LinkTick(now) ==
    LET r == tick(ssp, now)
    IN /\ ssp' = r[1]
       /\ sent' = IF ssp.outgoing_diff # <<>> THEN Append(sent, ssp.outgoing_diff) ELSE sent
       /\ net' = net \cup SetOf(r[2])
       /\ call' = [NoCall EXCEPT !.op = "tick", !.now = now, !.out = r[2]]
       /\ UNCHANGED <<pushed, peer, back, fifo, delivered, clientVars, unitVars, streamVars>>

\* the receiver decodes one Instruction of the link and hands it to
\* recv_instruction
LinkDeliver(bytes, now) ==
    LET instr == decode_from_bytes(bytes).instr
        r == recv_instruction(peer, instr, now)
    IN /\ peer' = r[1]
       /\ delivered' = IF IsSome(r[2]) THEN Append(delivered, r[2][1]) ELSE delivered
       /\ call' = [NoCall EXCEPT !.op = "peer.recv_instruction", !.now = now,
                                 !.instr = instr, !.ret = r[2]]
       /\ UNCHANGED <<ssp, sent, pushed, net, back, fifo, clientVars, unitVars, streamVars>>

\* the receiver's tick; its ACKs enter the return link
PeerTick(now) ==
    LET r == tick(peer, now)
    IN /\ peer' = r[1]
       /\ back' = back \cup SetOf(r[2])
       /\ call' = [NoCall EXCEPT !.op = "peer.tick", !.now = now, !.out = r[2]]
       /\ UNCHANGED <<ssp, sent, pushed, net, fifo, delivered, clientVars, unitVars, streamVars>>

\* the sender decodes one Instruction of the return link
LinkAck(bytes, now) ==
    LET instr == decode_from_bytes(bytes).instr
        r == recv_instruction(ssp, instr, now)
    IN /\ ssp' = r[1]
       /\ call' = [NoCall EXCEPT !.op = "recv_instruction", !.now = now,
                                 !.instr = instr, !.ret = r[2]]
       /\ UNCHANGED <<sent, pushed, linkVars, clientVars, unitVars, streamVars>>

NextLink ==
    \/ PushPayload(Stream(PushedLen, 1))
    \/ \E now \in LinkTimes : LinkTick(now)
    \/ \E bytes \in net, now \in LinkTimes : LinkDeliver(bytes, now)
    \/ \E now \in LinkTimes : PeerTick(now)
    \/ \E bytes \in back, now \in LinkTimes : LinkAck(bytes, now)

SpecLink == Init /\ [][NextLink]_vars

(* SpecFifo: the same two sessions joined by a link that delivers every     *)
(* Instruction exactly once and in emission order.                          *)

\* push_payload followed by tick at the sender
FifoSend(d, now) ==
    LET s1 == push_payload(ssp, d)
        r == tick(s1, now)
    IN /\ PushedLen + Len(d) <= MaxPush
       /\ ssp' = r[1]
       /\ pushed' = Append(pushed, d)
       /\ sent' = Append(sent, s1.outgoing_diff)
       /\ fifo' = fifo \o r[2]
       /\ call' = [NoCall EXCEPT !.op = "tick", !.now = now, !.out = r[2]]
       /\ UNCHANGED <<peer, net, back, delivered, clientVars, unitVars, streamVars>>

\* a timer tick at the sender (retransmissions, heartbeats)
FifoTick(now) ==
    LET r == tick(ssp, now)
    IN /\ Len(fifo) + Len(r[2]) <= MaxFifo
       /\ ssp' = r[1]
       /\ fifo' = fifo \o r[2]
       /\ call' = [NoCall EXCEPT !.op = "tick", !.now = now, !.out = r[2]]
       /\ UNCHANGED <<sent, pushed, peer, net, back, delivered, clientVars, unitVars, streamVars>>

\* the head of the link reaches the receiver
FifoDeliver(now) ==
    LET instr == decode_from_bytes(Head(fifo)).instr
        r == recv_instruction(peer, instr, now)
    IN /\ fifo # <<>>
       /\ peer' = r[1]
       /\ fifo' = Tail(fifo)
       /\ delivered' = IF IsSome(r[2]) THEN Append(delivered, r[2][1]) ELSE delivered
       /\ call' = [NoCall EXCEPT !.op = "peer.recv_instruction", !.now = now,
                                 !.instr = instr, !.ret = r[2]]
       /\ UNCHANGED <<ssp, sent, pushed, net, back, clientVars, unitVars, streamVars>>

NextFifo ==
    \/ \E now \in TimerTimes : FifoSend(Stream(PushedLen, 1), now)
    \/ \E now \in TimerTimes : FifoTick(now)
    \/ \E now \in TimerTimes : FifoDeliver(now)

SpecFifo == Init /\ [][NextFifo]_vars

---------------------------------------------------------------------------
(* SpecClient: one MoshClient driven by the host (send_data, tick) and by   *)
(* the datagrams of the network (recv_udp_packet): datagrams of the peer,   *)
(* whole or split in two fragments, and datagrams no honest peer made.      *)

ClientTimes == {0, 4200}
ClientRecvTimes == {1100}

\* the client as one value
Client ==
    [crypto |-> crypto, fragmenter |-> fragmenter, assembly |-> assembly,
     ssp |-> ssp, stream |-> stream, last_remote_timestamp |-> last_remote_timestamp]

SetClient(cl) ==
    /\ crypto' = cl.crypto
    /\ fragmenter' = cl.fragmenter
    /\ assembly' = cl.assembly
    /\ ssp' = cl.ssp
    /\ stream' = cl.stream
    /\ last_remote_timestamp' = cl.last_remote_timestamp

\* the datagram the peer makes of one fragment: its seq-th packet, sealed
\* under key
PeerPacket(key, seq, timestamp, frag) ==
    encrypt_packet([from_key(key) EXCEPT !.send_seq = seq], ToClient, timestamp,
                   Timestamp16_INIT, Fragment_to_bytes(frag))[2]

\* a sealed datagram with any plaintext
SealedPacket(key, seq, plaintext) ==
    UdpPayload(apply_to_seq(ToClient, seq),
               AeadEncrypt(key, apply_to_seq(ToClient, seq), plaintext))

\* the Instructions of the peer, in the order it makes them: two with data,
\* then a pure ACK
PeerInstrs ==
    <<new_send(0, 1, 0, 0, <<7, 8>>), new_send(1, 2, 1, 0, <<9>>), new_ack(1, 0)>>

\* the fragments of Instruction number id of the peer: whole, or in two
PeerFragments(id, bytes) ==
    LET half == Len(bytes) \div 2
    IN {[instruction_id |-> id, fragment_num |-> 0, is_final |-> TRUE, payload |-> bytes],
        [instruction_id |-> id, fragment_num |-> 0, is_final |-> FALSE,
         payload |-> SubSeq(bytes, 1, half)],
        [instruction_id |-> id, fragment_num |-> 1, is_final |-> TRUE,
         payload |-> SubSeq(bytes, half + 1, Len(bytes))]}

GoodPackets ==
    UNION {{PeerPacket(ClientKey, id, 100 + id, frag) :
               frag \in PeerFragments(id, encode_to_bytes(PeerInstrs[id]))} :
           id \in 1..Len(PeerInstrs)}

\* datagrams shorter than 24 bytes
ShortPackets == {[SealedPacket(OtherKey, 1, <<>>) EXCEPT !.len = n] : n \in {0, 23}}

\* datagrams whose tag does not verify: sealed under another key, or with a
\* changed nonce
ForgedPackets ==
    {PeerPacket(OtherKey, 1, 101,
                [instruction_id |-> 1, fragment_num |-> 0, is_final |-> TRUE,
                 payload |-> encode_to_bytes(new_send(0, 1, 0, 0, <<7, 8>>))]),
     [PeerPacket(ClientKey, 1, 101,
                 [instruction_id |-> 1, fragment_num |-> 0, is_final |-> TRUE,
                  payload |-> encode_to_bytes(new_send(0, 1, 0, 0, <<7, 8>>))])
        EXCEPT !.nonce_tail = apply_to_seq(ToClient, 2)]}

\* datagrams that verify and carry less than the 12-byte header, less than a
\* fragment header, or a complete fragment that is no Instruction
MalformedPackets ==
    {SealedPacket(ClientKey, 1, <<1, 2, 3>>),
     SealedPacket(ClientKey, 1, apply_to_seq(ToClient, 1) \o <<0, 102, 255, 255>>
                                \o <<0, 0, 0, 0>>),
     PeerPacket(ClientKey, 1, 103,
                [instruction_id |-> 1, fragment_num |-> 0, is_final |-> TRUE,
                 payload |-> <<24>>]),
     PeerPacket(ClientKey, 1, 104,
                [instruction_id |-> 1, fragment_num |-> 0, is_final |-> TRUE,
                 payload |-> <<8, 3>>])}

UdpPackets == GoodPackets \cup ShortPackets \cup ForgedPackets \cup MalformedPackets

\* the client takes the state r[1] and hands the datagrams r[2] to the host
Emit(op, r, now) ==
    /\ r[1].crypto.send_seq <= MaxSeq
    /\ SetClient(r[1])
    /\ call' = [NoCall EXCEPT !.op = op, !.now = now, !.out = r[2]]

SendData(data, now) ==
    /\ PushedLen + Len(data) <= MaxPush
    /\ Emit("send_data", send_data(Client, data, now), now)
    /\ pushed' = Append(pushed, data)
    /\ sent' = Append(sent, ssp.outgoing_diff \o stream.send_buffer \o data)
    /\ UNCHANGED <<linkVars, unitVars, streamVars>>

ClientTick(now) ==
    /\ Emit("tick", MoshClient_tick(Client, now), now)
    /\ sent' = IF ssp.outgoing_diff \o stream.send_buffer # <<>>
               THEN Append(sent, ssp.outgoing_diff \o stream.send_buffer) ELSE sent
    /\ UNCHANGED <<pushed, linkVars, unitVars, streamVars>>

\* the client takes the state r[1] and hands the result r[2] to the host
Receive(r, udp_bytes, now) ==
    /\ SetClient(r[1])
    /\ call' = [NoCall EXCEPT !.op = "recv_udp_packet", !.now = now,
                              !.udp = Some(udp_bytes), !.ok = r[2].ok,
                              !.err = r[2].err,
                              !.ret = IF r[2].ok THEN Some(r[2].data) ELSE None]

RecvUdpPacket(udp_bytes, now) ==
    /\ Receive(recv_udp_packet(Client, udp_bytes, now), udp_bytes, now)
    /\ UNCHANGED <<sent, pushed, linkVars, unitVars, streamVars>>

NextClient ==
    \/ \E now \in ClientTimes : SendData(Stream(PushedLen, 1), now)
    \/ \E now \in ClientTimes : ClientTick(now)
    \/ \E udp_bytes \in UdpPackets, now \in ClientRecvTimes : RecvUdpPacket(udp_bytes, now)

SpecClient == Init /\ [][NextClient]_vars

---------------------------------------------------------------------------
(* Properties of one SspSession (Spec) *)

PendingNums(s) == [i \in 1..Len(s.pending) |-> s.pending[i].num]

\* C3: recv_instruction with an Instruction whose new_num is non-zero and at
\* most last_recv_num returns None and leaves last_recv_num unchanged.
C3_DuplicateDeliversNothing ==
    [][(/\ call'.op = "recv_instruction"
        /\ new_num_or_zero(call'.instr) # 0
        /\ new_num_or_zero(call'.instr) <= ssp.last_recv_num)
       => (/\ call'.ret = None
           /\ ssp'.last_recv_num = ssp.last_recv_num)]_vars

\* a duplicate that carries a diff has been received and dropped
C3_Witness ==
    /\ call.op = "recv_instruction"
    /\ new_num_or_zero(call.instr) = 1
    /\ has_diff(call.instr)
    /\ ssp.last_recv_num = 2
    /\ call.ret = None

\* C6: in every reachable state last_acked <= next_send_num - 1.
C6_AckedBelowSendNum == ssp.last_acked <= ssp.next_send_num - 1

\* C7: the pending queue holds exactly the numbers last_acked+1, ...,
\* next_send_num-1, ascending and without gaps.
C7_PendingContiguous ==
    PendingNums(ssp) =
        [i \in 1..(ssp.next_send_num - 1 - ssp.last_acked) |-> ssp.last_acked + i]

(* Properties of one SspSession as a sender (SpecTimer) *)

\* C8: with nothing acknowledged so far and N >= 1 first transmissions made,
\* recv_instruction of an Instruction with ack_num = N leaves pending empty
\* and next_send_num = N + 1.
C8_CumulativeAck ==
    [][(/\ call'.op = "recv_instruction"
        /\ ssp.last_acked = 0
        /\ Len(sent) >= 1
        /\ ack_num_or_zero(call'.instr) = Len(sent))
       => (/\ ssp'.pending = <<>>
           /\ ssp'.next_send_num = Len(sent) + 1)]_vars

\* two Instructions were sent and one ACK of the second has retired both
C8_Witness ==
    /\ call.op = "recv_instruction"
    /\ ack_num_or_zero(call.instr) = 2
    /\ Len(sent) = 2
    /\ ssp.last_acked = 2
    /\ ssp.pending = <<>>
    /\ ssp.next_send_num = 3

\* C9: first transmissions are numbered 1, 2, 3, ... in the order of the
\* ticks that make them, and pending records leave the queue from the front
\* only, so in ascending new_num order.
C9_ProducedAndRetiredInOrder ==
    /\ [](\A i \in 1..Len(ssp.pending) :
             \A j \in 1..Len(ssp.pending) :
                 i < j => ssp.pending[i].num < ssp.pending[j].num)
    /\ [][LET made == Len(sent') = Len(sent) + 1
              old == PendingNums(ssp)
          IN /\ made =>
                   /\ call'.op = "tick"
                   /\ new_num_or_zero(decode_from_bytes(call'.out[1]).instr) = Len(sent')
             /\ \E k \in 0..Len(old) :
                   PendingNums(ssp)' =
                       SubSeq(old, k + 1, Len(old))
                       \o (IF made THEN <<Len(sent')>> ELSE <<>>)]_vars

\* two Instructions were produced and the first has been retired
C9_Witness ==
    /\ Len(sent) = 2
    /\ PendingNums(ssp) = <<2>>
    /\ call.op = "recv_instruction"


\* the indices of the pending records of s that are due at now_ms
DueAt(s, now_ms) ==
    {i \in 1..Len(s.pending) : now_ms - s.pending[i].sent_at_ms >= s.rto_ms}

RECURSIVE PayloadsOf(_, _, _)
PayloadsOf(pending, idx, i) ==
    IF i > Len(pending) THEN <<>>
    ELSE (IF i \in idx THEN <<pending[i].payload>> ELSE <<>>)
         \o PayloadsOf(pending, idx, i + 1)

IsSuffix(a, b) == \E k \in 0..Len(b) : a = SubSeq(b, k + 1, Len(b))

\* C10: in tick(now) a pending record is re-emitted iff now - sent_at_ms >=
\* rto_ms; a re-emitted record keeps its bytes (those of its first
\* transmission, which no other call changes), gets sent_at_ms = now and one
\* more retransmit, and a record that is not due is neither emitted nor
\* modified.
C10_RetransmitIffDue ==
    [][IF call'.op = "tick"
       THEN LET now == call'.now
                old == ssp.pending
                due == DueAt(ssp, now)
                made == ssp.outgoing_diff # <<>>
                new == ssp'.pending
            IN /\ Len(new) = Len(old) + (IF made THEN 1 ELSE 0)
               /\ \A i \in 1..Len(old) :
                     new[i] = IF i \in due
                              THEN [num |-> old[i].num,
                                    payload |-> old[i].payload,
                                    sent_at_ms |-> now,
                                    retransmit_count |-> old[i].retransmit_count + 1]
                              ELSE old[i]
               /\ made => /\ new[Len(new)].payload = call'.out[1]
                          /\ new[Len(new)].sent_at_ms = now
                          /\ new[Len(new)].retransmit_count = 0
               /\ IF made \/ due # {}
                  THEN call'.out = (IF made THEN <<new[Len(new)].payload>> ELSE <<>>)
                                   \o PayloadsOf(old, due, 1)
                  ELSE \A k \in 1..Len(call'.out) :
                          new_num_or_zero(decode_from_bytes(call'.out[k]).instr) = 0
       ELSE IsSuffix(ssp'.pending, ssp.pending)]_vars

\* with the initial RTO of 1000, tick(1500) has re-emitted the record sent at
\* 500, exactly one RTO old, and has left the record sent at 1000 alone
C10_Witness ==
    /\ call.op = "tick"
    /\ call.now = 1500
    /\ ssp.rto_ms = 1000
    /\ Len(ssp.pending) = 2
    /\ ssp.pending[1].sent_at_ms = 1500
    /\ ssp.pending[1].retransmit_count = 1
    /\ ssp.pending[2].sent_at_ms = 1000
    /\ ssp.pending[2].retransmit_count = 0
    /\ call.out = <<ssp.pending[1].payload>>

---------------------------------------------------------------------------
(* Properties of a sender and a receiver joined by a link *)

IsPrefix(a, b) == Len(a) <= Len(b) /\ a = SubSeq(b, 1, Len(a))

\* C1: over a link that may drop, duplicate and reorder, the concatenation of
\* the diffs the receiver's recv_instruction has returned is at every point a
\* prefix of the concatenation of the bytes given to the sender's
\* push_payload.
C1_DeliveredIsPrefix == IsPrefix(Flatten(delivered), Flatten(pushed))

\* C2: over a link that delivers every Instruction exactly once and in order,
\* the receiver's recv_instruction returns exactly the pushed byte strings, one
\* per push_payload-and-tick and in the same order, and once everything
\* emitted has arrived last_recv_num is the number of Instructions made.
C2_InOrderDelivery ==
    /\ IsPrefix(delivered, pushed)
    /\ peer.last_recv_num = Len(delivered)
    /\ fifo = <<>> => (delivered = pushed /\ peer.last_recv_num = Len(sent))

\* two byte strings were pushed, a retransmitted copy arrived as well, and the
\* link is empty
C2_Witness ==
    /\ Len(pushed) = 2
    /\ fifo = <<>>
    /\ delivered = pushed
    /\ peer.last_recv_num = 2
    /\ call.op = "peer.recv_instruction"
    /\ new_num_or_zero(call.instr) = 1
    /\ call.ret = None

---------------------------------------------------------------------------
(* Properties of the MoshClient facade (SpecClient) *)

\* C4: recv_udp_packet, given a datagram that is too short, fails
\* authentication, carries a malformed fragment header or reassembles to an
\* undecodable Instruction, propagates no error to the host: the call
\* completes normally.
C4_NoErrorPropagated == call.op = "recv_udp_packet" => call.ok

\* decrypt_packet rejects the datagram: it is shorter than 24 bytes, its tag
\* does not verify under the session's key and the datagram's nonce, or it
\* opens to less than the 12-byte header
DecryptFails(c, udp_bytes) ==
    \/ udp_bytes.len < 24
    \/ udp_bytes.ciphertext.key # c.key
    \/ udp_bytes.ciphertext.nonce # udp_bytes.nonce_tail
    \/ Len(udp_bytes.ciphertext.plaintext) < 12

\* C5: when decryption of an incoming datagram fails (PacketTooShort below 24
\* bytes, DecryptionFailed on a tag mismatch), the receiver's whole state is
\* unchanged (recv_seq, the echoed peer timestamp, the fragment assembly, the
\* SSP session, the stream buffers) and nothing is delivered.
C5_DecryptFailureChangesNothing ==
    [][(call'.op = "recv_udp_packet" /\ DecryptFails(crypto, call'.udp[1]))
       => /\ crypto' = crypto
          /\ last_remote_timestamp' = last_remote_timestamp
          /\ assembly' = assembly
          /\ ssp' = ssp
          /\ stream' = stream
          /\ fragmenter' = fragmenter
          /\ ~call'.ok
          /\ call'.ret = None
          /\ call'.err = IF call'.udp[1].len < 24 THEN "PacketTooShort"
                         ELSE "DecryptionFailed"]_vars

\* a datagram sealed under another key was rejected by a client that had
\* taken one Instruction and the first fragment of the next
C5_Witness ==
    /\ call.op = "recv_udp_packet"
    /\ call.udp[1].ciphertext.key = OtherKey
    /\ call.udp[1].len >= 24
    /\ call.err = "DecryptionFailed"
    /\ crypto.recv_seq = 2
    /\ last_remote_timestamp = 102
    /\ Cardinality(assembly.arrived) = 1
    /\ assembly.final_fragment_num = None
    /\ ssp.last_recv_num = 1

---------------------------------------------------------------------------
(* SpecRetry: one sender whose host calls tick again and again with a     *)
(* clock that only moves forward, up to the horizon of the model, while   *)
(* ACKs arrive or do not.                                                 *)

RetryUnit == RTO_MAX_MS \div 2
RetrySteps == {RetryUnit, 2 * RetryUnit}
RetryHorizon == MaxClock * RetryUnit
\* a record sent by the reading `now` is due by now + RTO_MAX_MS; the first
\* tick at or after that reading comes at most one RetryUnit later
RetryWait == RTO_MAX_MS + RetryUnit

RetryPush(d) ==
    /\ PushedLen + Len(d) <= MaxPush
    /\ ssp' = push_payload(ssp, d)
    /\ pushed' = Append(pushed, d)
    /\ call' = [NoCall EXCEPT !.op = "push_payload", !.now = call.now]
    /\ UNCHANGED <<sent, linkVars, clientVars, unitVars, streamVars>>

RetryTick(step) ==
    /\ call.now + step <= RetryHorizon
    /\ Tick(call.now + step)

RetryAck(a) == RecvInstruction(new_ack(a, 0), call.now)

NextRetry ==
    \/ RetryPush(Stream(PushedLen, 1))
    \/ \E step \in RetrySteps : RetryTick(step)
    \/ \E a \in 1..Len(sent) : RetryAck(a)

\* the host keeps calling tick: a tick with a later clock reading is taken
\* whenever one stays possible
SpecRetry ==
    Init /\ [][NextRetry]_vars /\ WF_vars(\E step \in RetrySteps : RetryTick(step))

InPending(s, n) == \E i \in 1..Len(s.pending) : s.pending[i].num = n
\* the retransmit_count of the pending record numbered n, -1 when there is none
RetransmitCount(s, n) ==
    IF InPending(s, n)
    THEN (CHOOSE p \in SetOf(s.pending) : p.num = n).retransmit_count
    ELSE -1

\* this tick call has re-emitted the pending record numbered n
Reemitted(s, c, n) ==
    /\ c.op = "tick"
    /\ \E p \in SetOf(s.pending) :
          p.num = n /\ p.retransmit_count > 0 /\ p.sent_at_ms = c.now /\ p.payload \in SetOf(c.out)

\* C11: retransmission has no retry ceiling.  tick never takes a record out
\* of pending, whatever its retransmit_count; and while the host keeps
\* ticking with a growing clock, from every state in which a record is
\* pending it is either acknowledged (it leaves pending) or re-emitted by a
\* later tick, again and again, as long as the horizon leaves time for it.
C11_RetransmitForever ==
    /\ [][call'.op = "tick" =>
            /\ Len(ssp'.pending) >= Len(ssp.pending)
            /\ \A i \in 1..Len(ssp.pending) : ssp'.pending[i].num = ssp.pending[i].num]_vars
    /\ \A n \in 1..MaxPush :
          (InPending(ssp, n) /\ ~Reemitted(ssp, call, n) /\ call.now + RetryWait <= RetryHorizon)
              ~> (~InPending(ssp, n) \/ Reemitted(ssp, call, n))

\* record 1 has been re-emitted three times and is still pending
C11_Witness ==
    /\ call.op = "tick"
    /\ Reemitted(ssp, call, 1)
    /\ RetransmitCount(ssp, 1) = 3

---------------------------------------------------------------------------
\* the estimator state of a session
RttOf(s) == <<s.srtt_ms, s.rttvar_ms, s.rto_ms>>

\* the session after update_rtt has been fed the samples one after another
RECURSIVE FeedSamples(_, _)
FeedSamples(s, samples) ==
    IF samples = <<>> THEN s
    ELSE FeedSamples(update_rtt(s, Head(samples)), Tail(samples))

\* the pending records an ACK of ack_num retires
Drained(s, ack_num) ==
    IF ack_num <= s.last_acked THEN <<>>
    ELSE SelectSeq(s.pending, LAMBDA p : p.num <= ack_num)

NeverRetransmitted(p) == p.retransmit_count = 0

\* C12: Karn's rule.  A recv_instruction call feeds the estimator one sample
\* now - sent_at_ms for every record its ACK retires that was never
\* retransmitted, in queue order, and nothing for a retransmitted record: an
\* ACK that retires only retransmitted records (or none) leaves srtt_ms,
\* rttvar_ms and rto_ms as they were.  No other call changes the estimator.
\* (Stated for calls whose clock reading is not before the records' sent_at_ms.)
C12_KarnsRule ==
    [][IF call'.op = "recv_instruction"
       THEN LET now == call'.now
                drained == Drained(ssp, ack_num_or_zero(call'.instr))
                fresh == SelectSeq(drained, NeverRetransmitted)
                samples == [i \in 1..Len(fresh) |-> now - fresh[i].sent_at_ms]
            IN (\A i \in 1..Len(fresh) : now >= fresh[i].sent_at_ms) =>
                  /\ RttOf(ssp') = RttOf(FeedSamples(ssp, samples))
                  /\ fresh = <<>> => RttOf(ssp') = RttOf(ssp)
       ELSE RttOf(ssp') = RttOf(ssp)]_vars

\* record 1 was first sent at 500, retransmitted at 1500, and its ACK at 1500
\* has left the estimator in its initial state
C12_Witness ==
    /\ call.op = "recv_instruction"
    /\ call.now = 3 * RetryUnit
    /\ Len(sent) = 1
    /\ ssp.last_send_ms = RetryUnit
    /\ ssp.last_acked = 1
    /\ ssp.pending = <<>>
    /\ RttOf(ssp) = RttOf(SspSession_new)

---------------------------------------------------------------------------
\* C13: in every reachable state rto_ms lies in [RTO_MIN_MS, RTO_MAX_MS]; it
\* is RTO_INITIAL_MS = 1000 as long as no ACK has been processed.
C13_RtoInRange ==
    /\ ssp.rto_ms \in RTO_MIN_MS..RTO_MAX_MS
    /\ ssp.last_acked = 0 => ssp.rto_ms = RTO_INITIAL_MS

\* a sample of 4200 ms has been fed: srtt + 4 * rttvar is 12600 ms and
\* rto_ms is held at RTO_MAX_MS
C13_Witness ==
    /\ call.op = "recv_instruction"
    /\ ssp.srtt_ms = 4200 * FixedUnit
    /\ ssp.rttvar_ms = 2100 * FixedUnit
    /\ ssp.rto_ms = RTO_MAX_MS

---------------------------------------------------------------------------
(* SpecBeat: one SspSession that sends and receives, with clock readings  *)
(* one heartbeat interval apart.                                          *)

BeatTimes == {0, HEARTBEAT_INTERVAL_MS}

\* the Instructions handed to recv_instruction under SpecBeat: any new_num,
\* two throwaway_num values, and an ack_num that acknowledges either nothing
\* or every Instruction sent so far
BeatInstrs ==
    {new_send(0, n, a, t, IF n = 0 THEN <<>> ELSE <<7>>) :
        n \in 0..MaxNum, a \in {0, Len(sent)}, t \in {0, 1}}

NextBeat ==
    \/ PushPayload(Stream(PushedLen, 1))
    \/ \E now \in BeatTimes : Tick(now)
    \/ \E instr \in BeatInstrs, now \in RecvTimes : RecvInstruction(instr, now)

SpecBeat == Init /\ [][NextBeat]_vars

\* C14: tick(now) emits a heartbeat exactly when the call has made no new
\* Instruction, has re-emitted no pending record and now - last_send_ms >=
\* HEARTBEAT_INTERVAL_MS.  The output is then the single Instruction with
\* old_num = 0, new_num = 0, ack_num = last_recv_num, throwaway_num = the
\* peer's throwaway_num and no diff; last_send_ms becomes now; pending and
\* next_send_num stay as they were.  In every other tick no Instruction
\* numbered 0 is emitted.
C14_HeartbeatWhenIdle ==
    [][call'.op = "tick" =>
        LET now == call'.now
            made == ssp.outgoing_diff # <<>>
            due == DueAt(ssp, now)
            beat == ~made /\ due = {} /\ now - ssp.last_send_ms >= HEARTBEAT_INTERVAL_MS
        IN IF beat
           THEN /\ Len(call'.out) = 1
                /\ decode_from_bytes(call'.out[1]).ok
                /\ LET i == decode_from_bytes(call'.out[1]).instr
                   IN /\ old_num_or_zero(i) = 0
                      /\ new_num_or_zero(i) = 0
                      /\ ack_num_or_zero(i) = ssp.last_recv_num
                      /\ throwaway_num_or_zero(i) = ssp.throwaway_num
                      /\ ~has_diff(i)
                /\ ssp'.last_send_ms = now
                /\ ssp'.pending = ssp.pending
                /\ ssp'.next_send_num = ssp.next_send_num
           ELSE \A k \in 1..Len(call'.out) :
                   new_num_or_zero(decode_from_bytes(call'.out[k]).instr) # 0]_vars

\* a heartbeat acknowledging Instruction 2 with throwaway_num 1 has been
\* emitted at 3000 while record 1 is pending and not due
C14_Witness ==
    /\ call.op = "tick"
    /\ call.now = HEARTBEAT_INTERVAL_MS
    /\ call.out = <<encode_to_bytes(new_ack(2, 1))>>
    /\ PendingNums(ssp) = <<1>>
    /\ ssp.last_send_ms = HEARTBEAT_INTERVAL_MS
    /\ ssp.last_recv_num = 2
    /\ ssp.throwaway_num = 1

---------------------------------------------------------------------------
\* C15: the receiver watermarks never decrease.  Across every step, whatever
\* Instruction is received, last_recv_num and the stored peer throwaway_num
\* are each at least what they were before.
C15_WatermarksMonotonic ==
    [][/\ ssp'.last_recv_num >= ssp.last_recv_num
       /\ ssp'.throwaway_num >= ssp.throwaway_num]_vars

\* an Instruction numbered 1 with throwaway_num 0 has been received while
\* the watermarks stood at 2 and 1, and they still do
C15_Witness ==
    /\ call.op = "recv_instruction"
    /\ new_num_or_zero(call.instr) = 1
    /\ throwaway_num_or_zero(call.instr) = 0
    /\ ssp.last_recv_num = 2
    /\ ssp.throwaway_num = 1

---------------------------------------------------------------------------
(* SpecFrag: a Fragmenter with a small payload MTU cuts up to two messages *)
(* into Fragments, and the Fragments are inserted into one                 *)
(* FragmentAssembly, each once, in any order.                              *)

FragMtus == {1, 2}
\* the instruction ids a Fragmenter hands out under SpecFrag
FragIds == {1, 2}
\* the message made under instruction id `id`: n bytes no other message has
FragMsg(id, n) == Stream(10 * id, n)

NewFragmenter(mtu) ==
    /\ call.op = "new"
    /\ fragmenter' = Fragmenter_new(mtu)
    /\ assembly' = FragmentAssembly_new
    /\ call' = [NoCall EXCEPT !.op = "Fragmenter_new"]
    /\ UNCHANGED <<ssp, sent, pushed, linkVars, crypto, stream, last_remote_timestamp,
                   msgs, frags, fed, peer_crypto, wire, streamVars>>

MakeFragments(m) ==
    LET r == make_fragments(fragmenter, m)
    IN /\ call.op # "new"
       /\ fragmenter.next_instruction_id \in FragIds
       /\ fragmenter' = r[1]
       /\ msgs' = Append(msgs, m)
       /\ frags' = frags \cup SetOf(r[2])
       /\ call' = [NoCall EXCEPT !.op = "make_fragments", !.out = r[2]]
       /\ UNCHANGED <<ssp, sent, pushed, linkVars, crypto, assembly, stream,
                      last_remote_timestamp, fed, peer_crypto, wire, streamVars>>

AddFragment(frag) ==
    LET r == add_fragment(assembly, frag)
    IN /\ assembly' = r[1]
       /\ frags' = frags \ {frag}
       /\ fed' = fed \cup {frag}
       /\ call' = [NoCall EXCEPT !.op = "add_fragment", !.arg = Some(frag), !.ret = r[2]]
       /\ UNCHANGED <<ssp, sent, pushed, linkVars, crypto, fragmenter, stream,
                      last_remote_timestamp, msgs, peer_crypto, wire, streamVars>>

NextFrag ==
    \/ \E mtu \in FragMtus : NewFragmenter(mtu)
    \/ \E n \in 0..MaxMsg : MakeFragments(FragMsg(fragmenter.next_instruction_id, n))
    \/ \E frag \in frags : AddFragment(frag)

SpecFrag == Init /\ [][NextFrag]_vars

\* the Fragments the make_fragments call numbered id returned
FragsOf(id) ==
    SetOf(make_fragments([fragmenter EXCEPT !.next_instruction_id = id], msgs[id])[2])

C17_ResetOnNewId ==
    /\ [][call'.op = "add_fragment" =>
            LET frag == call'.arg[1]
            IN assembly.current_id # Some(frag.instruction_id) =>
                 /\ assembly'.current_id = Some(frag.instruction_id)
                 /\ assembly'.arrived = {frag}
                 /\ assembly'.final_fragment_num =
                        IF frag.is_final THEN Some(frag.fragment_num) ELSE None]_vars
    /\ [](\A g \in assembly.arrived : assembly.current_id = Some(g.instruction_id))
    /\ []((call.op = "add_fragment" /\ call.ret # None) =>
            call.ret = Some(msgs[call.arg[1].instruction_id]))

\* the final Fragment of message 1 was in the assembly when a Fragment of
\* message 2 arrived; the rest of message 2 followed and message 2 is returned
C17_Witness ==
    /\ call.op = "add_fragment"
    /\ Len(msgs) = 2
    /\ \E g \in fed : g.instruction_id = 1 /\ g.is_final /\ g.fragment_num > 0
    /\ FragsOf(1) \cap frags # {}
    /\ Cardinality(FragsOf(2)) = 2
    /\ call.arg[1].instruction_id = 2
    /\ call.ret = Some(msgs[2])

---------------------------------------------------------------------------
(* SpecCrypto: two CryptoSessions made from the same key; one seals        *)
(* packets, the other opens what the first has sealed.                     *)

CryptoDirections == {ToServer, ToClient}
CryptoTimestamps == {0, 258, 65535}
CryptoReplies == {0, 65535}
CryptoPayloads == {<<>>, <<1>>, <<255, 0, 7>>}

EncryptPacket(direction, timestamp, timestamp_reply, payload) ==
    LET r == encrypt_packet(crypto, direction, timestamp, timestamp_reply, payload)
    IN /\ crypto.send_seq < MaxSeq
       /\ crypto' = r[1]
       /\ call' = [NoCall EXCEPT !.op = "encrypt_packet", !.udp = Some(r[2]),
                                 !.arg = Some([direction |-> direction,
                                               timestamp |-> timestamp,
                                               timestamp_reply |-> timestamp_reply,
                                               payload |-> payload])]
       /\ UNCHANGED <<ssp, sent, pushed, linkVars, fragmenter, assembly, stream,
                      last_remote_timestamp, msgs, frags, fed, peer_crypto, wire, streamVars>>

\* the other session opens the packet that was sealed last
DecryptPacket ==
    LET r == decrypt_packet(peer_crypto, call.udp[1])
    IN /\ call.op = "encrypt_packet"
       /\ peer_crypto' = r.crypto
       /\ call' = [call EXCEPT !.op = "decrypt_packet", !.ok = r.ok, !.err = r.err,
                               !.ret = IF r.ok THEN Some(r.packet) ELSE None]
       /\ UNCHANGED <<ssp, sent, pushed, linkVars, clientVars, msgs, frags, fed, wire, streamVars>>

NextCrypto ==
    \/ \E direction \in CryptoDirections, timestamp \in CryptoTimestamps,
          timestamp_reply \in CryptoReplies, payload \in CryptoPayloads :
            EncryptPacket(direction, timestamp, timestamp_reply, payload)
    \/ DecryptPacket

SpecCrypto == Init /\ [][NextCrypto]_vars

\* C18: for two CryptoSessions holding the same key, decrypt_packet applied
\* to the output of encrypt_packet(d, ts, tsr, p) succeeds and returns
\* direction d, timestamp ts, timestamp_reply tsr and payload p (and the
\* sequence number the packet was sealed under), for either direction, any
\* timestamps and any payload, the empty one included.
C18_EncryptDecryptRoundTrip ==
    call.op = "decrypt_packet" =>
        /\ call.ok
        /\ call.ret = Some([seq |-> crypto.send_seq - 1,
                            direction |-> call.arg[1].direction,
                            timestamp |-> call.arg[1].timestamp,
                            timestamp_reply |-> call.arg[1].timestamp_reply,
                            payload |-> call.arg[1].payload])

\* the second packet of a session, sealed towards the client with timestamp
\* 65535 and an empty payload, has been opened
C18_Witness ==
    /\ call.op = "decrypt_packet"
    /\ call.ok
    /\ call.arg[1].direction = ToClient
    /\ call.arg[1].timestamp = 65535
    /\ call.arg[1].payload = <<>>
    /\ call.ret[1].seq = 1
    /\ peer_crypto.recv_seq = 1

---------------------------------------------------------------------------
(* SpecSend: the sending side of a MoshClient made with a network MTU of   *)
(* 100 bytes (64 bytes of payload per fragment), so that an Instruction    *)
(* with a 60-byte diff leaves in two datagrams; ACKs of the peer arrive.   *)

SendMtu == 100
SendLens == {1, 60}
SendTimes == {0, 4200}
\* datagrams a MoshClient seals over a run of SpecSend
SendCap == 2 * MaxSeq + 1

InitSend ==
    /\ crypto = MoshClient_new(ClientKey, Some(SendMtu)).crypto
    /\ fragmenter = MoshClient_new(ClientKey, Some(SendMtu)).fragmenter
    /\ assembly = MoshClient_new(ClientKey, Some(SendMtu)).assembly
    /\ ssp = MoshClient_new(ClientKey, Some(SendMtu)).ssp
    /\ stream = MoshClient_new(ClientKey, Some(SendMtu)).stream
    /\ last_remote_timestamp = MoshClient_new(ClientKey, Some(SendMtu)).last_remote_timestamp
    /\ sent = <<>>
    /\ call = NoCall
    /\ pushed = <<>>
    /\ peer = SspSession_new
    /\ net = {}
    /\ back = {}
    /\ fifo = <<>>
    /\ delivered = <<>>
    /\ msgs = <<>>
    /\ frags = {}
    /\ fed = {}
    /\ peer_crypto = from_key(ClientKey)
    /\ wire = <<>>
    /\ taken = <<>>
    /\ applied = <<>>
    /\ readout = <<>>

\* the run of SpecSend seals at most SendCap datagrams
WithinCap(r) == r[1].crypto.send_seq <= SendCap

\* the client takes the state r[1] and hands the datagrams r[2] to the host
EmitWire(op, r, now) ==
    /\ r[1].crypto.send_seq <= SendCap
    /\ SetClient(r[1])
    /\ wire' = wire \o r[2]
    /\ call' = [NoCall EXCEPT !.op = op, !.now = now, !.out = r[2]]

HostSend(data, now) ==
    /\ Len(pushed) < MaxPush
    /\ EmitWire("send_data", send_data(Client, data, now), now)
    /\ pushed' = Append(pushed, data)
    /\ sent' = Append(sent, ssp.outgoing_diff \o stream.send_buffer \o data)
    /\ UNCHANGED <<linkVars, msgs, frags, fed, peer_crypto, streamVars>>

HostTick(now) ==
    /\ EmitWire("tick", MoshClient_tick(Client, now), now)
    /\ sent' = IF ssp.outgoing_diff \o stream.send_buffer # <<>>
               THEN Append(sent, ssp.outgoing_diff \o stream.send_buffer) ELSE sent
    /\ UNCHANGED <<pushed, linkVars, msgs, frags, fed, peer_crypto, streamVars>>

\* send_data with no bytes
HostSendEmpty(now) ==
    /\ WithinCap(send_data(Client, <<>>, now))
    /\ SetClient(send_data(Client, <<>>, now)[1])
    /\ wire' = wire \o send_data(Client, <<>>, now)[2]
    /\ call' = [NoCall EXCEPT !.op = "send_data", !.now = now, !.arg = Some(<<>>),
                              !.out = send_data(Client, <<>>, now)[2]]
    /\ UNCHANGED <<sent, pushed, linkVars, msgs, frags, fed, peer_crypto, streamVars>>

\* a datagram of the peer: a pure ACK of every Instruction sent so far
HostRecv(now) ==
    RecvUdpPacket(PeerPacket(ClientKey, 0, 0,
                             [instruction_id |-> 1, fragment_num |-> 0, is_final |-> TRUE,
                              payload |-> encode_to_bytes(new_ack(Len(sent), 0))]),
                  now)

NextSend ==
    \/ \E n \in SendLens, now \in SendTimes : HostSend(Stream(PushedLen, n), now)
    \/ \E now \in SendTimes : HostTick(now)
    \/ \E now \in SendTimes : HostSendEmpty(now)
    \/ \E now \in ClientRecvTimes : HostRecv(now)

SpecSend == InitSend /\ [][NextSend]_vars

\* the sequence number in the nonce tail of a datagram (bit 63 cleared)
SeqOf(packet) == FromBE([packet.nonce_tail EXCEPT ![1] = @ % 128])

\* C20: every encrypt_packet call uses the current send_seq and raises it by
\* one: the k-th datagram a client emits, whatever it carries, has sequence
\* number k - 1, send_seq counts the datagrams emitted, and the nonces of all
\* datagrams emitted are pairwise distinct.
C20_SendSeqStrictlyIncreasing ==
    /\ crypto.send_seq = Len(wire)
    /\ \A k \in 1..Len(wire) :
          /\ SeqOf(wire[k]) = k - 1
          /\ wire[k].ciphertext.nonce = wire[k].nonce_tail
          /\ SubSeq(wire[k].ciphertext.plaintext, 1, 8) = wire[k].nonce_tail
    /\ \A j, k \in 1..Len(wire) : j < k => wire[j].nonce_tail # wire[k].nonce_tail

\* a first transmission in two fragments, its retransmission in two
\* fragments and a heartbeat have been emitted: five datagrams
C20_Witness ==
    /\ Len(wire) = 5
    /\ call.op = "tick"
    /\ Len(call.out) = 1
    /\ ssp.pending = <<>>
    /\ Len(sent) = 1
    /\ Len(sent[1]) = 60

---------------------------------------------------------------------------
\* the Fragment a datagram of the client carries
FragmentIn(packet) ==
    Fragment_from_bytes(SubSeq(packet.ciphertext.plaintext, 13,
                               Len(packet.ciphertext.plaintext))).frag

\* the sequence number in the plaintext of a datagram: the low 63 bits of dseq
DseqLow63(packet) ==
    FromBE([SubSeq(packet.ciphertext.plaintext, 1, 8) EXCEPT ![1] = @ % 128])

\* the Instruction carried by the k-th datagram of one call's output, put
\* together from the Fragments of the output with the same instruction_id
CarriedInstruction(out, k) ==
    LET id == FragmentIn(out[k]).instruction_id
        parts == {FragmentIn(out[j]) : j \in {i \in 1..Len(out) : FragmentIn(out[i]).instruction_id = id}}
        final_num == (CHOOSE g \in parts : g.is_final).fragment_num
    IN decode_from_bytes(Assemble(parts, 0, final_num)).instr

\* C19: for every datagram the sending side produces, the low 63 bits of the
\* dseq in its plaintext equal the new_num of the Instruction it carries.
C19_DseqIsNewNum ==
    call.op \in {"send_data", "tick"} =>
        \A k \in 1..Len(call.out) :
            DseqLow63(call.out[k]) = new_num_or_zero(CarriedInstruction(call.out, k))

---------------------------------------------------------------------------
\* the client inside send_data(data), after stream.write and before the flush
Written(cl, data) == [cl EXCEPT !.stream = write(cl.stream, data)]

\* the diff of the Instruction the session has made last
LastDiff(s) == diff_bytes(decode_from_bytes(s.pending[Len(s.pending)].payload).instr)

\* tick and send_data with no bytes agree from the client cl, and hand the
\* bytes the stream's send buffer holds to the SSP session, which sends them
SameAsTick(cl, t, now) ==
    /\ send_data(cl, <<>>, now) = t
    /\ t[1].stream.send_buffer = <<>>
    /\ cl.stream.send_buffer # <<>> =>
          /\ t[1].ssp.pending # <<>>
          /\ LastDiff(t[1].ssp) = cl.ssp.outgoing_diff \o cl.stream.send_buffer
          /\ t[2] # <<>>

\* C21: the facade's tick(now) is send_data without the initial write: from
\* the same state, send_data with no bytes at time now and tick(now) give the
\* same datagrams and the same resulting state; and from a state whose
\* stream send buffer holds bytes (as it does inside send_data after the
\* write) both transmit those bytes.
C21_TickIsSendWithoutWrite ==
    \A now \in SendTimes :
        /\ SameAsTick(Client, MoshClient_tick(Client, now), now)
        /\ SameAsTick(Written(Client, <<99>>),
                      MoshClient_tick(Written(Client, <<99>>), now), now)

\* send_data with no bytes has re-emitted a two-fragment Instruction
C21_Witness ==
    /\ call.op = "send_data"
    /\ call.arg = Some(<<>>)
    /\ Len(call.out) = 2
    /\ Len(ssp.pending) = 1
    /\ ssp.pending[1].retransmit_count = 1

---------------------------------------------------------------------------
(* SpecStream: one StreamChannel under any interleaving of write,          *)
(* take_pending_diff, apply_diff and read_available.                       *)

\* the sizes of the byte strings handed to write and to apply_diff
StreamLens == {0, 1, 2}
\* the peer's byte stream: its k-th byte is 100 + k
PeerStream(from, n) == [i \in 1..n |-> 100 + from + i]

StreamWrite(data) ==
    /\ Len(pushed) <= MaxPush
    /\ PushedLen + Len(data) <= MaxPush
    /\ stream' = write(stream, data)
    /\ pushed' = Append(pushed, data)
    /\ call' = [NoCall EXCEPT !.op = "write", !.arg = Some(data)]
    /\ UNCHANGED <<ssp, sent, linkVars, crypto, fragmenter, assembly,
                   last_remote_timestamp, unitVars, streamVars>>

StreamTake ==
    /\ stream' = take_pending_diff(stream)[1]
    /\ taken' = taken \o take_pending_diff(stream)[2]
    /\ call' = [NoCall EXCEPT !.op = "take_pending_diff",
                              !.ret = Some(take_pending_diff(stream)[2])]
    /\ UNCHANGED <<ssp, sent, pushed, linkVars, crypto, fragmenter, assembly,
                   last_remote_timestamp, unitVars, applied, readout>>

StreamApply(diff) ==
    /\ Len(applied) + Len(diff) <= MaxPush
    /\ stream' = apply_diff(stream, diff)
    /\ applied' = applied \o diff
    /\ call' = [NoCall EXCEPT !.op = "apply_diff", !.arg = Some(diff)]
    /\ UNCHANGED <<ssp, sent, pushed, linkVars, crypto, fragmenter, assembly,
                   last_remote_timestamp, unitVars, taken, readout>>

StreamRead ==
    /\ stream' = read_available(stream)[1]
    /\ readout' = readout \o read_available(stream)[2]
    /\ call' = [NoCall EXCEPT !.op = "read_available",
                              !.ret = Some(read_available(stream)[2])]
    /\ UNCHANGED <<ssp, sent, pushed, linkVars, crypto, fragmenter, assembly,
                   last_remote_timestamp, unitVars, taken, applied>>

NextStream ==
    \/ \E n \in StreamLens : StreamWrite(Stream(PushedLen, n))
    \/ StreamTake
    \/ \E n \in StreamLens : StreamApply(PeerStream(Len(applied), n))
    \/ StreamRead

SpecStream == Init /\ [][NextStream]_vars

\* C22: StreamChannel loses, duplicates and reorders nothing in either
\* direction.  All bytes read so far followed by recv_buffer are all bytes
\* applied; all bytes taken so far followed by send_buffer are all bytes
\* written; the counters count the bytes applied and taken; and write and
\* take_pending_diff leave recv_buffer as it was, apply_diff and
\* read_available leave send_buffer as it was.
C22_StreamLosesNothing ==
    /\ [](/\ readout \o stream.recv_buffer = applied
          /\ taken \o stream.send_buffer = Flatten(pushed)
          /\ stream.total_received = Len(applied)
          /\ stream.total_sent = Len(taken))
    /\ [][/\ call'.op \in {"write", "take_pending_diff"} =>
               stream'.recv_buffer = stream.recv_buffer
          /\ call'.op \in {"apply_diff", "read_available"} =>
               stream'.send_buffer = stream.send_buffer]_vars

\* both directions are under way: a byte has been read and another waits in
\* recv_buffer, a byte has been taken and another waits in send_buffer
C22_Witness ==
    /\ call.op = "apply_diff"
    /\ readout # <<>>
    /\ stream.recv_buffer # <<>>
    /\ taken # <<>>
    /\ stream.send_buffer # <<>>

---------------------------------------------------------------------------
(* SpecMtu: the sending side of MoshClient instances constructed with      *)
(* different network MTUs.                                                 *)

\* the mtu argument of MoshClient::new: absent, zero, below and above the
\* size at which the payload floor stops mattering
ClientMtus == {None, Some(0), Some(100), Some(110), Some(111)}

InitMtu ==
    /\ \E mtu \in ClientMtus :
          /\ crypto = MoshClient_new(ClientKey, mtu).crypto
          /\ fragmenter = MoshClient_new(ClientKey, mtu).fragmenter
          /\ assembly = MoshClient_new(ClientKey, mtu).assembly
          /\ ssp = MoshClient_new(ClientKey, mtu).ssp
          /\ stream = MoshClient_new(ClientKey, mtu).stream
          /\ last_remote_timestamp = MoshClient_new(ClientKey, mtu).last_remote_timestamp
    /\ sent = <<>>
    /\ call = NoCall
    /\ pushed = <<>>
    /\ peer = SspSession_new
    /\ net = {}
    /\ back = {}
    /\ fifo = <<>>
    /\ delivered = <<>>
    /\ msgs = <<>>
    /\ frags = {}
    /\ fed = {}
    /\ peer_crypto = from_key(ClientKey)
    /\ wire = <<>>
    /\ taken = <<>>
    /\ applied = <<>>
    /\ readout = <<>>

SpecMtu == InitMtu /\ [][NextSend]_vars

\* the network MTU a client was constructed with
NetworkMtu(mtu) == UnwrapOr(mtu, DEFAULT_MTU)

\* the length in bytes of a datagram on the wire: nonce tail, ciphertext, tag
DatagramLen(packet) == packet.len

---------------------------------------------------------------------------
(* SpecDup: a MoshClient fed the datagrams of its peer, each any number of *)
(* times and in any order.                                                 *)

\* a fragment of an emission of the peer
PeerFragment(id, num, final, bytes) ==
    [instruction_id |-> id, fragment_num |-> num, is_final |-> final, payload |-> bytes]

\* the first half and the rest of a byte string
FirstHalf(bytes) == SubSeq(bytes, 1, Len(bytes) \div 2)
SecondHalf(bytes) == SubSeq(bytes, Len(bytes) \div 2 + 1, Len(bytes))

\* the datagrams of the peer, in the order it seals them: Instruction 1 in
\* one fragment, its retransmission in two fragments, Instruction 2, and a
\* pure ACK; every emission has its own instruction_id and every datagram
\* its own sequence number
DupPackets ==
    <<PeerPacket(ClientKey, 0, 100,
                 PeerFragment(1, 0, TRUE, encode_to_bytes(PeerInstrs[1]))),
      PeerPacket(ClientKey, 1, 101,
                 PeerFragment(2, 0, FALSE, FirstHalf(encode_to_bytes(PeerInstrs[1])))),
      PeerPacket(ClientKey, 2, 101,
                 PeerFragment(2, 1, TRUE, SecondHalf(encode_to_bytes(PeerInstrs[1])))),
      PeerPacket(ClientKey, 3, 102,
                 PeerFragment(3, 0, TRUE, encode_to_bytes(PeerInstrs[2]))),
      PeerPacket(ClientKey, 4, 103,
                 PeerFragment(4, 0, TRUE, encode_to_bytes(PeerInstrs[3])))>>

\* the datagrams fed to one client over a run of SpecDup
DupCap == MaxMsg + 1

\* the bytes a call appended to the stream: the last bytes of what the call
\* returned followed by what it left in recv_buffer
AppendedBy(cl, r) ==
    LET all == (IF r[2].ok THEN r[2].data ELSE <<>>) \o r[1].stream.recv_buffer
        n == r[1].stream.total_received - cl.stream.total_received
    IN SubSeq(all, Len(all) - n + 1, Len(all))

FeedDatagram(k, now) ==
    /\ Len(msgs) < DupCap
    /\ Receive(recv_udp_packet(Client, DupPackets[k], now), DupPackets[k], now)
    /\ msgs' = Append(msgs, k)
    /\ applied' = applied \o AppendedBy(Client, recv_udp_packet(Client, DupPackets[k], now))
    /\ UNCHANGED <<sent, pushed, linkVars, frags, fed, peer_crypto, wire, taken, readout>>

NextDup == \E k \in 1..Len(DupPackets), now \in ClientRecvTimes : FeedDatagram(k, now)

SpecDup == Init /\ [][NextDup]_vars

\* how often the byte string diff occurs in the byte string bytes
Occurrences(diff, bytes) ==
    Cardinality({i \in 1..Len(bytes) - Len(diff) + 1 :
                    SubSeq(bytes, i, i + Len(diff) - 1) = diff})

---------------------------------------------------------------------------
(* Properties of recv_instruction (SpecBeat, SpecRetry) *)

\* the pending records numbered above ack_num
AboveAck(s, ack_num) == SelectSeq(s.pending, LAMBDA p : p.num > ack_num)

\* C25: recv_instruction applies ack_num to the pending queue, raises the
\* peer's throwaway_num and sets last_recv_ms to now for every Instruction it
\* is handed, also for a heartbeat (new_num = 0) and for a duplicate or
\* reordered Instruction (new_num <= last_recv_num), which deliver nothing.
C25_EveryInstructionIsRecorded ==
    [][call'.op = "recv_instruction" =>
        LET ack_num == ack_num_or_zero(call'.instr)
            new_num == new_num_or_zero(call'.instr)
        IN /\ ack_num > ssp.last_acked =>
                 /\ ssp'.pending = AboveAck(ssp, ack_num)
                 /\ ssp'.last_acked = ack_num
           /\ ssp'.throwaway_num = Max(ssp.throwaway_num,
                                       throwaway_num_or_zero(call'.instr))
           /\ ssp'.last_recv_ms = call'.now
           /\ (new_num = 0 \/ new_num <= ssp.last_recv_num) =>
                 /\ call'.ret = None
                 /\ ssp'.last_recv_num = ssp.last_recv_num]_vars

\* a duplicate was received; its ACK has emptied the pending queue, its
\* throwaway_num and the time of the call have been recorded
C25_Witness ==
    /\ call.op = "recv_instruction"
    /\ new_num_or_zero(call.instr) = 1
    /\ ssp.last_recv_num = 2
    /\ call.ret = None
    /\ ack_num_or_zero(call.instr) = 2
    /\ ssp.last_acked = 2
    /\ ssp.pending = <<>>
    /\ throwaway_num_or_zero(call.instr) = 1
    /\ ssp.throwaway_num = 1
    /\ ssp.last_recv_ms = call.now

\* C26: a stale ACK changes nothing on the sending side: recv_instruction
\* with ack_num <= last_acked leaves pending, last_acked, next_send_num,
\* srtt_ms, rttvar_ms and rto_ms as they were.
C26_StaleAckChangesNothing ==
    [][(/\ call'.op = "recv_instruction"
        /\ ack_num_or_zero(call'.instr) <= ssp.last_acked)
       => (/\ ssp'.pending = ssp.pending
           /\ ssp'.last_acked = ssp.last_acked
           /\ ssp'.next_send_num = ssp.next_send_num
           /\ ssp'.srtt_ms = ssp.srtt_ms
           /\ ssp'.rttvar_ms = ssp.rttvar_ms
           /\ ssp'.rto_ms = ssp.rto_ms)]_vars

\* an ACK of Instruction 1 arrives after Instruction 2 was acknowledged and
\* an RTT sample was taken
C26_Witness ==
    /\ call.op = "recv_instruction"
    /\ ack_num_or_zero(call.instr) = 1
    /\ ssp.last_acked = 2
    /\ ssp.srtt_ms # 0

---------------------------------------------------------------------------
(* Properties of tick (SpecBeat, SpecRetry) *)

\* the Instructions of one tick's output, decoded
OutInstrs(out) == [k \in 1..Len(out) |-> decode_from_bytes(out[k]).instr]

\* C27: when the outgoing buffer is non-empty, tick(now) creates exactly one
\* new Instruction, which carries all buffered bytes as its diff, with
\* old_num = last_acked, new_num = the previous next_send_num, ack_num =
\* last_recv_num and throwaway_num = the peer's throwaway_num; afterwards the
\* buffer is empty, next_send_num is one greater, last_send_ms = now and a
\* pending record with sent_at_ms = now and retransmit count 0 has been
\* appended.
C27_TickMakesOneInstruction ==
    [][(call'.op = "tick" /\ ssp.outgoing_diff # <<>>) =>
        /\ call'.out # <<>>
        /\ OutInstrs(call'.out)[1] =
               new_send(ssp.last_acked, ssp.next_send_num, ssp.last_recv_num,
                        ssp.throwaway_num, ssp.outgoing_diff)
        /\ \A k \in 2..Len(call'.out) :
               new_num_or_zero(OutInstrs(call'.out)[k]) < ssp.next_send_num
        /\ ssp'.outgoing_diff = <<>>
        /\ ssp'.next_send_num = ssp.next_send_num + 1
        /\ ssp'.last_send_ms = call'.now
        /\ Len(ssp'.pending) = Len(ssp.pending) + 1
        /\ ssp'.pending[Len(ssp'.pending)] =
               [num |-> ssp.next_send_num, payload |-> call'.out[1],
                sent_at_ms |-> call'.now, retransmit_count |-> 0]]_vars

\* a tick at 3000 has made Instruction 1 out of the bytes of two
\* push_payload calls, after an Instruction of the peer was received
C27_Witness ==
    /\ call.op = "tick"
    /\ call.now = HEARTBEAT_INTERVAL_MS
    /\ Len(pushed) = 2
    /\ Len(call.out) = 1
    /\ diff_bytes(OutInstrs(call.out)[1]) = Flatten(pushed)
    /\ ack_num_or_zero(OutInstrs(call.out)[1]) = 2
    /\ throwaway_num_or_zero(OutInstrs(call.out)[1]) = 1
    /\ ssp.next_send_num = 2

\* the pending records of s are in ascending num order
PendingAscending(s) ==
    \A i, j \in 1..Len(s.pending) : i < j => s.pending[i].num < s.pending[j].num

\* C28: within one tick call every pending record that is due is
\* retransmitted (no pacing); the output lists the newly created Instruction
\* first (if any), then the retransmissions in ascending num order; and no
\* Instruction appears twice in the output: the record created in this tick
\* is not also retransmitted in it.
C28_AllDueRetransmittedOnce ==
    /\ []PendingAscending(ssp)
    /\ [][call'.op = "tick" =>
            LET now == call'.now
                fresh == ssp.outgoing_diff # <<>>
                due == DueAt(ssp, now)
                out == OutInstrs(call'.out)
                first == IF fresh THEN 1 ELSE 0
            IN /\ (fresh \/ due # {}) =>
                     /\ Len(call'.out) = first + Cardinality(due)
                     /\ SubSeq(call'.out, first + 1, Len(call'.out))
                            = PayloadsOf(ssp.pending, due, 1)
               /\ fresh => new_num_or_zero(out[1]) = ssp.next_send_num
               /\ \A i \in due :
                     /\ ssp'.pending[i].sent_at_ms = now
                     /\ ssp'.pending[i].retransmit_count
                            = ssp.pending[i].retransmit_count + 1
               /\ \A j, k \in 1..Len(out) :
                     j < k => new_num_or_zero(out[j]) # new_num_or_zero(out[k])
               /\ \A j, k \in first + 1..Len(out) :
                     j < k => new_num_or_zero(out[j]) < new_num_or_zero(out[k])
               /\ fresh => ssp'.pending[Len(ssp'.pending)].retransmit_count = 0]_vars

\* one tick has retransmitted both pending records, in ascending order
C28_Witness ==
    /\ call.op = "tick"
    /\ Len(call.out) = 2
    /\ new_num_or_zero(OutInstrs(call.out)[1]) = 1
    /\ new_num_or_zero(OutInstrs(call.out)[2]) = 2
    /\ \A i \in 1..2 : ssp.pending[i].retransmit_count > 0 /\ ssp.pending[i].sent_at_ms = call.now

---------------------------------------------------------------------------
(* SpecPulse: one SspSession ticked with a clock that never goes back, in  *)
(* steps of one RTO, one heartbeat interval, and one millisecond less.     *)

PulseSteps == {RTO_INITIAL_MS, HEARTBEAT_INTERVAL_MS - 1, HEARTBEAT_INTERVAL_MS}
PulseHorizon == MaxClock * RTO_INITIAL_MS

\* what a tick has put on the wire for the first time: a data Instruction, a
\* heartbeat, or neither
PulseEvents(s, out, now) ==
    IF s.outgoing_diff # <<>> THEN <<[kind |-> "data", at |-> now]>>
    ELSE IF out # <<>> /\ new_num_or_zero(decode_from_bytes(out[1]).instr) = 0
         THEN <<[kind |-> "heartbeat", at |-> now]>>
         ELSE <<>>

PulseTickAt(now, r) ==
    /\ now <= PulseHorizon
    /\ ssp' = r[1]
    /\ sent' = IF ssp.outgoing_diff # <<>> THEN Append(sent, ssp.outgoing_diff) ELSE sent
    /\ call' = [NoCall EXCEPT !.op = "tick", !.now = now, !.out = r[2]]
    /\ msgs' = msgs \o PulseEvents(ssp, r[2], now)
    /\ UNCHANGED <<pushed, linkVars, clientVars, frags, fed, peer_crypto, wire, streamVars>>

PulseTick(step) == PulseTickAt(call.now + step, tick(ssp, call.now + step))

NextPulse ==
    \/ RetryPush(Stream(PushedLen, 1))
    \/ \E step \in PulseSteps : PulseTick(step)
    \/ \E a \in 1..Len(sent) : RetryAck(a)

SpecPulse == Init /\ [][NextPulse]_vars

\* the clock readings around the heartbeat boundary of the session
BoundaryTimes(s) ==
    {t \in {0, s.last_send_ms - 1, s.last_send_ms,
            s.last_send_ms + HEARTBEAT_INTERVAL_MS - 1,
            s.last_send_ms + HEARTBEAT_INTERVAL_MS,
            s.last_send_ms + HEARTBEAT_INTERVAL_MS + 1} : t >= 0}

\* C29: needs_heartbeat(t) holds exactly when t - last_send_ms >= 3000
\* (false at last_send_ms + 2999, true at last_send_ms + 3000).  With tick
\* times that never go back, a heartbeat comes at least 3000 ms after the
\* heartbeat before it and after the first transmission of any data
\* Instruction before it, and a tick that only retransmits leaves
\* last_send_ms as it was.
C29_HeartbeatSpacing ==
    /\ [](/\ \A t \in BoundaryTimes(ssp) :
                needs_heartbeat(ssp, t) <=> (t - ssp.last_send_ms >= 3000)
          /\ ~needs_heartbeat(ssp, ssp.last_send_ms + 2999)
          /\ needs_heartbeat(ssp, ssp.last_send_ms + 3000))
    /\ [](\A i, j \in 1..Len(msgs) :
              (i < j /\ msgs[j].kind = "heartbeat") => msgs[j].at - msgs[i].at >= 3000)
    /\ [][(/\ call'.op = "tick"
            /\ ssp.outgoing_diff = <<>>
            /\ DueAt(ssp, call'.now) # {})
           => ssp'.last_send_ms = ssp.last_send_ms]_vars

\* a data Instruction was first sent at 1000 and has been acknowledged; the
\* heartbeats came at 4000 and 7000, the second in the tick just made
C29_Witness ==
    /\ msgs = <<[kind |-> "data", at |-> RTO_INITIAL_MS],
                [kind |-> "heartbeat", at |-> RTO_INITIAL_MS + 3000],
                [kind |-> "heartbeat", at |-> RTO_INITIAL_MS + 6000]>>
    /\ call.op = "tick"
    /\ call.now = RTO_INITIAL_MS + 6000
    /\ ssp.pending = <<>>

---------------------------------------------------------------------------
(* SpecFair: a sender and a receiver SspSession joined by two channels     *)
(* that lose and reorder Instructions.  The two sides tick in turn, one    *)
(* heartbeat interval apart, for as long as the horizon allows; a channel  *)
(* settles every Instruction (delivers it or loses it) before the next     *)
(* tick, and loses at most MaxLoss Instructions over a run.                *)

FairStep == HEARTBEAT_INTERVAL_MS
FairHorizon == (MaxClock + 2) * FairStep
\* Instructions the two channels lose over a run
MaxLoss == MaxMsg - 2
\* the time within which an Instruction is made, gets through and is
\* acknowledged: two ticks of each side, and two more for every loss
FairWait == 2 * (MaxLoss + 2) * FairStep

Settled == net = {} /\ back = {}
SenderTurn == (call.now \div FairStep) % 2 = 0

\* the sender's tick; its Instructions enter the channel
FairSenderTick ==
    /\ Settled
    /\ SenderTurn
    /\ call.now + FairStep <= FairHorizon
    /\ LinkTick(call.now + FairStep)

\* the receiver's tick; its Instructions enter the return channel
FairPeerTick ==
    /\ Settled
    /\ ~SenderTurn
    /\ call.now + FairStep <= FairHorizon
    /\ PeerTick(call.now + FairStep)

\* the channel hands one Instruction to the receiver
FairDeliverAs(bytes, instr, r) ==
    /\ peer' = r[1]
    /\ net' = net \ {bytes}
    /\ delivered' = IF IsSome(r[2]) THEN Append(delivered, r[2][1]) ELSE delivered
    /\ call' = [NoCall EXCEPT !.op = "peer.recv_instruction", !.now = call.now,
                              !.instr = instr, !.ret = r[2]]
    /\ UNCHANGED <<ssp, sent, pushed, back, fifo, clientVars, unitVars, streamVars>>

FairDeliver(bytes) ==
    FairDeliverAs(bytes, decode_from_bytes(bytes).instr,
                  recv_instruction(peer, decode_from_bytes(bytes).instr, call.now))

\* the return channel hands one Instruction to the sender
FairAckAs(bytes, instr, r) ==
    /\ ssp' = r[1]
    /\ back' = back \ {bytes}
    /\ call' = [NoCall EXCEPT !.op = "recv_instruction", !.now = call.now,
                              !.instr = instr, !.ret = r[2]]
    /\ UNCHANGED <<sent, pushed, peer, net, fifo, delivered, clientVars, unitVars,
                   streamVars>>

FairAck(bytes) ==
    FairAckAs(bytes, decode_from_bytes(bytes).instr,
              recv_instruction(ssp, decode_from_bytes(bytes).instr, call.now))

\* a channel loses one Instruction
FairLose(bytes) ==
    /\ Len(msgs) < MaxLoss
    /\ net' = net \ {bytes}
    /\ back' = back \ {bytes}
    /\ msgs' = Append(msgs, bytes)
    /\ UNCHANGED <<ssp, sent, call, pushed, peer, fifo, delivered, clientVars,
                   frags, fed, peer_crypto, wire, streamVars>>

NextFair ==
    \/ RetryPush(Stream(PushedLen, 1))
    \/ FairSenderTick
    \/ FairPeerTick
    \/ \E bytes \in net : FairDeliver(bytes)
    \/ \E bytes \in back : FairAck(bytes)
    \/ \E bytes \in net \cup back : FairLose(bytes)

\* both hosts keep ticking and the channels keep delivering
SpecFair ==
    /\ Init
    /\ [][NextFair]_vars
    /\ WF_vars(FairSenderTick)
    /\ WF_vars(FairPeerTick)
    /\ WF_vars(\E bytes \in net : FairDeliver(bytes))
    /\ WF_vars(\E bytes \in back : FairAck(bytes))

\* the host has pushed its last byte
LastPushDone == PushedLen = MaxPush

\* everything pushed has reached the receiver and has been acknowledged
AllAcked ==
    /\ ssp.outgoing_diff = <<>>
    /\ peer.last_recv_num = ssp.next_send_num - 1
    /\ ssp.pending = <<>>

\* C30: over channels that lose and reorder but keep delivering, with both
\* sides ticking on, after the sender's last push_payload the receiver's
\* last_recv_num comes to equal the sender's highest new_num and the
\* sender's pending queue comes to be empty, and it stays empty.
C30_EventuallyDeliveredAndAcked ==
    /\ (LastPushDone /\ call.now + FairWait <= FairHorizon) ~> AllAcked
    /\ [][(LastPushDone /\ AllAcked) => AllAcked']_vars

\* the channels have lost as many Instructions as they may, and still
\* everything pushed has reached the receiver and has been acknowledged
C30_Witness ==
    /\ LastPushDone
    /\ AllAcked
    /\ ssp.next_send_num = MaxPush + 1
    /\ Len(msgs) = MaxLoss
    /\ call.op = "recv_instruction"

---------------------------------------------------------------------------
(* Properties of the pending queue under any received ack_num (Spec) *)

\* C31: after recv_instruction has processed an Instruction with ack_num =
\* a, no pending record numbered a or less remains in the queue, whatever a
\* is and whatever was received earlier in the run.
C31_NothingAckedStaysPending ==
    [][call'.op = "recv_instruction" =>
        \A i \in 1..Len(ssp'.pending) :
            ssp'.pending[i].num > ack_num_or_zero(call'.instr)]_vars

---------------------------------------------------------------------------
(* SpecStarve: one SspSession that sends and receives data, ticked for as  *)
(* long as the horizon allows with a clock that advances by half an RTO or *)
(* a whole RTO per tick.                                                   *)

StarveHorizon == (MaxClock + 4) * RetryUnit
\* the time within which a session ticked every half RTO emits an ACK: one
\* heartbeat interval, and one RTO for the ticks taken up by retransmissions
StarveWait == HEARTBEAT_INTERVAL_MS + RTO_MAX_MS

StarveTick(step) ==
    /\ call.now + step <= StarveHorizon
    /\ Tick(call.now + step)

\* the next data Instruction of the peer, which acknowledges nothing
StarveRecv ==
    /\ ssp.last_recv_num < MaxNum
    /\ RecvInstruction(new_send(ssp.last_recv_num, ssp.last_recv_num + 1, 0, 0, <<7>>),
                       call.now)

NextStarve ==
    \/ RetryPush(Stream(PushedLen, 1))
    \/ \E step \in RetrySteps : StarveTick(step)
    \/ StarveRecv

\* the host keeps calling tick
SpecStarve ==
    Init /\ [][NextStarve]_vars /\ WF_vars(\E step \in RetrySteps : StarveTick(step))

\* this tick call has emitted an Instruction that acknowledges n or more
AckEmitted(c, n) ==
    /\ c.op = "tick"
    /\ \E k \in 1..Len(c.out) : ack_num_or_zero(OutInstrs(c.out)[k]) >= n

---------------------------------------------------------------------------
(* SpecReflect: a MoshClient whose own datagrams are fed back into its     *)
(* recv_udp_packet.                                                        *)

\* the message the fragment of a datagram completes in the assembly a, if any
CompletedBy(c, a, packet) ==
    add_fragment(a, Fragment_from_bytes(decrypt_packet(c, packet).packet.payload).frag)[2]

\* recv_udp_packet; the call record keeps the message the datagram completed
\* (arg) and the Instruction decoded from it (instr)
ReflectAs(udp_bytes, now, r, done) ==
    /\ SetClient(r[1])
    /\ call' = [NoCall EXCEPT !.op = "recv_udp_packet", !.now = now,
                              !.udp = Some(udp_bytes), !.ok = r[2].ok,
                              !.err = r[2].err,
                              !.ret = IF r[2].ok THEN Some(r[2].data) ELSE None,
                              !.arg = done,
                              !.instr = IF done = None THEN EmptyInstruction
                                        ELSE decode_from_bytes(done[1]).instr]
    /\ UNCHANGED <<sent, pushed, linkVars, unitVars, streamVars>>

\* the k-th datagram the client has emitted comes back to it
Reflect(k, now) ==
    ReflectAs(wire[k], now, recv_udp_packet(Client, wire[k], now),
              CompletedBy(crypto, assembly, wire[k]))

\* datagrams a MoshClient seals over a run of SpecReflect
ReflectCap == MaxSeq + 1

ReflectSend(data, now) ==
    /\ send_data(Client, data, now)[1].crypto.send_seq <= ReflectCap
    /\ HostSend(data, now)

ReflectTick(now) ==
    /\ MoshClient_tick(Client, now)[1].crypto.send_seq <= ReflectCap
    /\ HostTick(now)

NextReflect ==
    \/ ReflectSend(Stream(PushedLen, 1), 0)
    \/ \E now \in SendTimes : ReflectTick(now)
    \/ \E k \in 1..Len(wire), now \in ClientRecvTimes : Reflect(k, now)

SpecReflect == InitSend /\ [][NextReflect]_vars

\* C33: the receive path does not inspect the direction bit.  A datagram the
\* client itself emitted (direction ToServer), fed back into its own
\* recv_udp_packet, is decrypted successfully, and the Instruction it
\* completes is handled like peer traffic: its ack_num is applied to the
\* client's own pending queue, and its diff is returned when its new_num is
\* above last_recv_num.
C33_OwnDatagramAccepted ==
    [][(/\ call'.op = "recv_udp_packet"
        /\ \E k \in 1..Len(wire) : call'.udp = Some(wire[k]))
       => (/\ call'.ok
           /\ from_seq(call'.udp[1].nonce_tail) = ToServer
           /\ crypto'.recv_seq = SeqOf(call'.udp[1])
           /\ call'.arg # None =>
                 /\ ssp'.last_acked = Max(ssp.last_acked, ack_num_or_zero(call'.instr))
                 /\ ssp'.pending = AboveAck(ssp, ssp'.last_acked)
                 /\ ssp'.last_recv_ms = call'.now
                 /\ new_num_or_zero(call'.instr) > ssp.last_recv_num =>
                       /\ ssp'.last_recv_num = new_num_or_zero(call'.instr)
                       /\ call'.ret = Some(diff_bytes(call'.instr))
                       /\ stream'.total_received
                             = stream.total_received + Len(diff_bytes(call'.instr)))]_vars

\* the client has taken its own Instruction 2 as peer traffic: the ack_num
\* it carries has retired the client's Instruction 1, and its diff was
\* returned to the host
C33_Witness ==
    /\ call.op = "recv_udp_packet"
    /\ \E k \in 1..Len(wire) : call.udp = Some(wire[k])
    /\ call.ok
    /\ ssp.last_recv_num = 2
    /\ ssp.last_acked = 1
    /\ PendingNums(ssp) = <<2>>
    /\ call.ret = Some(pushed[2])

---------------------------------------------------------------------------
(* Properties of the path from push_payload to the pending queue *)

\* the Instruction a pending record was first sent as
InstrOf(p) == decode_from_bytes(p.payload).instr

\* C34: no byte is lost or duplicated between push_payload and Instruction
\* creation.  The diffs of all first transmissions made so far, in new_num
\* order, followed by the outgoing buffer, are the push_payload arguments in
\* call order; and every Instruction placed in pending carries a non-empty
\* diff and a new_num of 1 or more.
C34_PushedBytesAllSent ==
    /\ [](/\ Flatten(sent) \o ssp.outgoing_diff = Flatten(pushed)
          /\ \A i \in 1..Len(ssp.pending) :
                /\ has_diff(InstrOf(ssp.pending[i]))
                /\ new_num_or_zero(InstrOf(ssp.pending[i])) >= 1
                /\ new_num_or_zero(InstrOf(ssp.pending[i])) = ssp.pending[i].num
                /\ ssp.pending[i].num <= Len(sent)
                /\ diff_bytes(InstrOf(ssp.pending[i])) = sent[ssp.pending[i].num])
    /\ [][Len(sent') = Len(sent) + 1 =>
            /\ call'.op = "tick"
            /\ new_num_or_zero(OutInstrs(call'.out)[1]) = Len(sent')
            /\ diff_bytes(OutInstrs(call'.out)[1]) = sent'[Len(sent')]
            /\ ssp'.pending[Len(ssp'.pending)].payload = call'.out[1]]_vars

\* two push_payload calls have led to two first transmissions, both pending,
\* and the buffer is empty again
C34_Witness ==
    /\ Len(sent) = 2
    /\ Len(pushed) = 2
    /\ Len(ssp.pending) = 2
    /\ Flatten(sent) = Flatten(pushed)
    /\ ssp.outgoing_diff = <<>>

---------------------------------------------------------------------------
(* SpecAck: one SspSession as a sender whose peer acknowledges any number, *)
(* also numbers that were never sent.                                      *)

\* the ack_num values of the Instructions received under SpecAck
AckNums == 0..MaxNum + 1

NextAck ==
    \/ PushPayload(Stream(PushedLen, 1))
    \/ \E now \in Times : Tick(now)
    \/ \E a \in AckNums, now \in RecvTimes : RecvInstruction(new_ack(a, 0), now)

SpecAck == Init /\ [][NextAck]_vars

\* C35: whatever ack_num values are received, the nums of the pending
\* records are strictly ascending and consecutive, each is at least 1 and
\* below next_send_num, the last one (if any) is next_send_num - 1, and
\* next_send_num - 1 is the number of first transmissions made so far.
C35_PendingNumsConsecutive ==
    /\ \A i \in 1..Len(ssp.pending) :
          /\ ssp.pending[i].num >= 1
          /\ ssp.pending[i].num < ssp.next_send_num
    /\ \A i \in 1..Len(ssp.pending) - 1 :
          ssp.pending[i + 1].num = ssp.pending[i].num + 1
    /\ ssp.pending # <<>> => ssp.pending[Len(ssp.pending)].num = ssp.next_send_num - 1
    /\ ssp.next_send_num - 1 = Len(sent)

\* an ACK of a number never sent was received before two Instructions were
\* made; both are pending although last_acked is beyond them
C35_Witness ==
    /\ ssp.last_acked = MaxNum + 1
    /\ PendingNums(ssp) = <<1, 2>>
    /\ ssp.next_send_num = 3

---------------------------------------------------------------------------
(* SpecFacade: one MoshClient driven through every entry point that        *)
(* touches the receive buffer of its stream: recv_udp_packet with the      *)
(* datagrams of the peer, has_pending_read and read_pending, between calls *)
(* of send_data and tick.                                                  *)

MoshClient_has_pending_read(cl) == has_pending_read(cl.stream)

\* <<client, data>>
read_pending(cl) ==
    <<[cl EXCEPT !.stream = read_available(cl.stream)[1]],
      read_available(cl.stream)[2]>>

HasPendingRead ==
    /\ call' = [NoCall EXCEPT !.op = "has_pending_read",
                              !.ret = Some(MoshClient_has_pending_read(Client))]
    /\ UNCHANGED <<ssp, sent, pushed, linkVars, clientVars, unitVars, streamVars>>

ReadPending ==
    /\ SetClient(read_pending(Client)[1])
    /\ call' = [NoCall EXCEPT !.op = "read_pending",
                              !.ret = Some(read_pending(Client)[2])]
    /\ UNCHANGED <<sent, pushed, linkVars, unitVars, streamVars>>

NextFacade ==
    \/ SendData(Stream(PushedLen, 1), 0)
    \/ ClientTick(0)
    \/ \E udp_bytes \in GoodPackets \cup ForgedPackets, now \in ClientRecvTimes :
          RecvUdpPacket(udp_bytes, now)
    \/ HasPendingRead
    \/ ReadPending

SpecFacade == Init /\ [][NextFacade]_vars

Incomplete(c, a, packet) ==
    /\ decrypt_packet(c, packet).ok
    /\ Fragment_from_bytes(decrypt_packet(c, packet).packet.payload).ok
    /\ CompletedBy(c, a, packet) = None

\* C37: recv_udp_packet with a valid datagram whose fragment completes no
\* Instruction returns an empty result and leaves the SSP session, the
\* stream and the fragmenter as they were; recv_seq, the echoed timestamp and
\* the assembly are all that changes.
C37_IncompleteFragmentIsQuiet ==
    [][(call'.op = "recv_udp_packet" /\ Incomplete(crypto, assembly, call'.udp[1])) =>
        /\ call'.ok
        /\ call'.ret = Some(<<>>)
        /\ ssp' = ssp
        /\ stream' = stream
        /\ fragmenter' = fragmenter
        /\ crypto' = [crypto EXCEPT !.recv_seq = SeqOf(call'.udp[1])]
        /\ last_remote_timestamp' = decrypt_packet(crypto, call'.udp[1]).packet.timestamp
        /\ assembly' = add_fragment(assembly,
               Fragment_from_bytes(decrypt_packet(crypto, call'.udp[1]).packet.payload).frag)[1]]_vars

\* the first half of the peer's Instruction 2 has arrived after Instruction
\* 1 was delivered and while an Instruction of the client is pending
C37_Witness ==
    /\ call.op = "recv_udp_packet"
    /\ call.ok
    /\ call.ret = Some(<<>>)
    /\ assembly.current_id = Some(2)
    /\ Cardinality(assembly.arrived) = 1
    /\ assembly.final_fragment_num = None
    /\ ssp.last_recv_num = 1
    /\ Len(ssp.pending) = 1
    /\ last_remote_timestamp = 102

---------------------------------------------------------------------------
(* SpecRefrag: one FragmentAssembly fed Fragments of two instruction ids,  *)
(* with any index, any final flag and any payload, each any number of      *)
(* times. msgs holds the complete message add_fragment returned last for   *)
(* current_id, if it has returned one.                                     *)

RefragPayloads == {<<1>>, <<2>>}

RefragFragments ==
    {PeerFragment(id, num, final, bytes) :
        id \in FragIds, num \in 0..2, final \in BOOLEAN, bytes \in RefragPayloads}

RefeedAs(frag, r) ==
    /\ assembly' = r[1]
    /\ msgs' = IF r[2] # None THEN <<r[2][1]>>
               ELSE IF assembly.current_id = Some(frag.instruction_id) THEN msgs
               ELSE <<>>
    /\ call' = [NoCall EXCEPT !.op = "add_fragment", !.arg = Some(frag), !.ret = r[2]]
    /\ UNCHANGED <<ssp, sent, pushed, linkVars, crypto, fragmenter, stream,
                   last_remote_timestamp, frags, fed, peer_crypto, wire, streamVars>>

Refeed(frag) == RefeedAs(frag, add_fragment(assembly, frag))

NextRefrag == \E frag \in RefragFragments : Refeed(frag)

SpecRefrag == Init /\ [][NextRefrag]_vars

\* C38: once add_fragment has returned a complete message for the current
\* instruction id, adding a Fragment the assembly already holds (same id,
\* index, payload and final flag) returns that message again and leaves the
\* assembly as it was.
C38_ReAddIsIdempotent ==
    [][(/\ call'.op = "add_fragment"
        /\ msgs # <<>>
        /\ call'.arg[1] \in assembly.arrived) =>
            /\ call'.ret = Some(msgs[1])
            /\ assembly' = assembly]_vars

---------------------------------------------------------------------------
(* SpecWord: Fragment::to_bytes applied to one Fragment with any u16 index *)
(* near the ends of the range and around bit 15, final or not, and         *)
(* Fragment::from_bytes applied to the bytes.                              *)

WordNums == {0, 1, 2, 3, 32766, 32767, 32768, 32769, 49152, 65534, 65535}

WordFragments ==
    {PeerFragment(id, num, final, bytes) :
        id \in FragIds, num \in WordNums, final \in BOOLEAN, bytes \in {<<>>, <<9>>}}

InitWord ==
    /\ crypto = MoshClient_new(ClientKey, None).crypto
    /\ fragmenter = MoshClient_new(ClientKey, None).fragmenter
    /\ assembly = MoshClient_new(ClientKey, None).assembly
    /\ ssp = MoshClient_new(ClientKey, None).ssp
    /\ stream = MoshClient_new(ClientKey, None).stream
    /\ last_remote_timestamp = MoshClient_new(ClientKey, None).last_remote_timestamp
    /\ sent = <<>>
    /\ call = NoCall
    /\ pushed = <<>>
    /\ peer = SspSession_new
    /\ net = {}
    /\ back = {}
    /\ fifo = <<>>
    /\ delivered = <<>>
    /\ msgs = <<>>
    /\ \E frag \in WordFragments : frags = {frag}
    /\ fed = {}
    /\ peer_crypto = from_key(ClientKey)
    /\ wire = <<>>
    /\ taken = <<>>
    /\ applied = <<>>
    /\ readout = <<>>

ToBytes ==
    /\ call.op = "new"
    /\ \E frag \in frags :
          call' = [NoCall EXCEPT !.op = "to_bytes", !.arg = Some(frag),
                                 !.out = <<Fragment_to_bytes(frag)>>]
    /\ UNCHANGED <<ssp, sent, pushed, linkVars, clientVars, unitVars, streamVars>>

FromBytes ==
    /\ call.op = "to_bytes"
    /\ call' = [call EXCEPT !.op = "from_bytes",
                            !.ok = Fragment_from_bytes(call.out[1]).ok,
                            !.ret = Some(Fragment_from_bytes(call.out[1]).frag)]
    /\ UNCHANGED <<ssp, sent, pushed, linkVars, clientVars, unitVars, streamVars>>

NextWord == ToBytes \/ FromBytes

SpecWord == InitWord /\ [][NextWord]_vars

\* the 16-bit word at bytes 8..9 of an encoded Fragment
WireWord(bytes) == FromBE(SubSeq(bytes, 9, 10))

\* C39: to_bytes writes the word (is_final ? 0x8000 : 0) | (index & 0x7FFF)
\* for every u16 index and either value of is_final, so bit 15 of the word
\* on the wire is set exactly when is_final is.
C39_WireFlagIsFinal ==
    call.op = "to_bytes" =>
        /\ WireWord(call.out[1]) =
              (IF call.arg[1].is_final THEN 32768 ELSE 0) + (call.arg[1].fragment_num % 32768)
        /\ (WireWord(call.out[1]) \div 32768 = 1) <=> call.arg[1].is_final

---------------------------------------------------------------------------
\* the number of emissions completed among the first k datagrams of out
FinalsUpTo(out, k) == Cardinality({j \in 1..k : FragmentIn(out[j]).is_final})

\* the bytes of the emission the k-th datagram of out belongs to
CarriedBytes(out, k) ==
    LET id == FragmentIn(out[k]).instruction_id
        parts == {FragmentIn(out[j]) : j \in {i \in 1..Len(out) : FragmentIn(out[i]).instruction_id = id}}
        final_num == (CHOOSE g \in parts : g.is_final).fragment_num
    IN Assemble(parts, 0, final_num)

\* C40: every emission of the client facade (first transmission,
\* retransmission or heartbeat) is fragmented under an instruction_id one
\* greater than that of the emission before it, starting at 1; all
\* fragments of one emission carry its id, so a retransmission never has
\* the id of the transmission it repeats.
C40_FreshIdPerEmission ==
    /\ fragmenter.next_instruction_id = FinalsUpTo(wire, Len(wire)) + 1
    /\ wire # <<>> => FragmentIn(wire[Len(wire)]).is_final
    /\ \A k \in 1..Len(wire) :
          /\ FragmentIn(wire[k]).instruction_id = FinalsUpTo(wire, k - 1) + 1
          /\ FragmentIn(wire[k]).fragment_num =
                Cardinality({j \in 1..k - 1 : FragmentIn(wire[j]).instruction_id
                                                = FragmentIn(wire[k]).instruction_id})
          /\ decode_from_bytes(CarriedBytes(wire, k)).ok
    /\ \A j, k \in 1..Len(wire) :
          (j < k /\ FragmentIn(wire[j]).is_final /\ FragmentIn(wire[k]).is_final)
              => FragmentIn(wire[j]).instruction_id < FragmentIn(wire[k]).instruction_id

\* a first transmission in two fragments under id 1, its retransmission in
\* two fragments under id 2 and a heartbeat under id 3
C40_Witness ==
    /\ Len(wire) = 5
    /\ [k \in 1..5 |-> FragmentIn(wire[k]).instruction_id] = <<1, 1, 2, 2, 3>>
    /\ CarriedBytes(wire, 1) = CarriedBytes(wire, 3)
    /\ new_num_or_zero(decode_from_bytes(CarriedBytes(wire, 1)).instr) = 1
    /\ new_num_or_zero(decode_from_bytes(CarriedBytes(wire, 5)).instr) = 0

====
